---- MODULE Spec2Model ----
(***************************************************************************)
(* Model of cssgen: the linter's resolution engine (Lint / analyzeUsage /  *)
(* ResolveBestConstants), the generator's lineage analysis (ParseCSS /     *)
(* AnalyzeClasses / mergeConflicts) and the lint command (scanner,         *)
(* limitIssues, exit code).                                                *)
(*                                                                         *)
(* Go strings that the code splits, searches or rewrites are sequences of  *)
(* one-character strings, e.g. "a z" is <<"a", " ", "z">>.  Constant names *)
(* of the registry (Go identifiers the linter only compares) are atoms.    *)
(***************************************************************************)
EXTENDS Integers, Sequences, FiniteSets, TLC

VARIABLES
    pc,                     \* position of the modelled pipeline
    constants,              \* Lint: map ConstName -> CSS value (ParseGeneratedFile)
    allCSSClasses,          \* Lint: set of keys of the AllCSSClasses map
    lookup,                 \* Lint: *CSSLookup built by buildLookupMaps
    cur,                    \* analyzeUsage: the reference of the last loop iteration
    curFrom,                \* analyzeUsage: len(issues) before that iteration
    actuallyUsed,           \* analyzeUsage: keys of the local map actuallyUsed
    availableForMigration,  \* analyzeUsage: keys of the local map availableForMigration
    hardcodedStrings,       \* analyzeUsage: local slice hardcodedStrings
    invalidClasses,         \* analyzeUsage: local slice invalidClasses
    issues,                 \* analyzeUsage: local slice issues
    result,                 \* analyzeUsage: *LintResult
    generated,              \* Lint: the generated registry file named by GeneratedFile
    exit,                   \* main / runLint: the flags of the run and the exit code
    source,                 \* ScanFiles: the lines of the scanned file
    references,             \* Lint: the references ScanFiles returns
    files,                  \* Generate: the scanned stylesheet files
    fileIdx,                \* processFiles: position of the loop over files
    heap,                   \* the CSSClass records allocated so far
    allClasses,             \* Generate: the slice classes (allClasses of processFiles), positions in heap
    warnings,               \* Generate: result.Warnings
    publicClasses,          \* Generate: the slice publicClasses
    run,                    \* number of the current run of the generator
    previous                \* the (Name, GoName) pairs of the run before

lintVars == <<constants, allCSSClasses, lookup, cur, curFrom, actuallyUsed,
              availableForMigration, hardcodedStrings, invalidClasses, issues, result,
              generated, exit, source, references>>

genVars == <<files, fileIdx, heap, allClasses, warnings, publicClasses, run, previous>>

vars == <<pc, lintVars, genVars>>

-----------------------------------------------------------------------------
(* Bounds *)

MaxRefs == 2        \* references handed to analyzeUsage

-----------------------------------------------------------------------------
(* Generic helpers for Go strings, slices and maps *)

Max(S) == CHOOSE x \in S : \A y \in S : y <= x

Min(S) == CHOOSE x \in S : \A y \in S : x <= y

Range(f) == {f[x] : x \in DOMAIN f}

\* strings.Fields: split around runs of white space, no empty fields
Whitespace == {" "}

RECURSIVE FieldsFrom(_, _, _)
FieldsFrom(s, i, field) ==
    IF i > Len(s)
    THEN IF field = <<>> THEN <<>> ELSE <<field>>
    ELSE IF s[i] \in Whitespace
         THEN IF field = <<>>
              THEN FieldsFrom(s, i + 1, <<>>)
              ELSE <<field>> \o FieldsFrom(s, i + 1, <<>>)
         ELSE FieldsFrom(s, i + 1, Append(field, s[i]))

Fields(s) == FieldsFrom(s, 1, <<>>)

\* strings.HasPrefix
HasPrefix(s, prefix) ==
    /\ Len(prefix) <= Len(s)
    /\ \A k \in 1..Len(prefix) : s[k] = prefix[k]

\* strings.Index: 0-based byte offset of the first occurrence, -1 if none
OccursAt(s, sub, i) ==
    /\ i + Len(sub) - 1 <= Len(s)
    /\ \A k \in 1..Len(sub) : s[i + k - 1] = sub[k]

Index(s, sub) ==
    LET hits == {i \in 1..(Len(s) + 1) : OccursAt(s, sub, i)}
    IN  IF hits = {} THEN -1 ELSE Min(hits) - 1

\* strings.IndexAny
IndexAny(s, chars) ==
    LET hits == {i \in 1..Len(s) : s[i] \in chars}
    IN  IF hits = {} THEN -1 ELSE Min(hits) - 1

\* s[from:] and s[:to] with 0-based offsets
SliceFrom(s, from) == SubSeq(s, from + 1, Len(s))
SliceTo(s, to) == SubSeq(s, 1, to)

RECURSIVE Join(_, _)
Join(parts, sep) ==
    IF Len(parts) = 0 THEN <<>>
    ELSE IF Len(parts) = 1 THEN parts[1]
    ELSE parts[1] \o sep \o Join(Tail(parts), sep)

-----------------------------------------------------------------------------
(* Linter inputs: the generated registry and the scanned references *)

\* class tokens that occur in scanned class strings
TokA == <<"a">>
TokZ == <<"z">>
TokInternal == <<"_", "a">>
TokenPool == {TokA, TokZ, TokInternal}

\* names of constants in the generated file, and values they may have; a
\* value with a space is a constant written by an earlier generator version
\* (TestParseGeneratedFile: BtnPrimary = "btn btn--primary")
ConstNames == {"A", "B"}
ValuePool == {TokA, TokInternal, Join(<<TokA, TokZ>>, <<" ">>)}

\* ui.X identifiers found by the scanner: X need not be in the registry
RefConstNames == {"A", "C"}

\* class strings captured by the scanner (class="([^"]+)": never empty)
RefStrings ==
    TokenPool
    \cup {Join(pair, <<" ">>) : pair \in {<<TokA, TokZ>>, <<TokA, TokA>>, <<TokZ, TokZ>>,
                                          <<TokA, TokInternal>>, <<TokInternal, TokZ>>}}
    \cup {<<" ">> \o TokZ \o <<" ", " ">> \o TokA \o <<" ">>}

\* the source line of a reference, as scanFile passes it on: the class attribute
ClassAttr == <<"c", "l", "a", "s", "s", "=">>
Quote == "\""
LineOf(value) == ClassAttr \o <<Quote>> \o value \o <<Quote>>

\* ClassReference (extractClassesFromLine): a ui.X reference or a class string
ConstRef(name) ==
    [IsConstant |-> TRUE, ConstName |-> name, FullClassValue |-> <<>>,
     Location |-> [Column |-> 1, Text |-> <<"u", "i", ".", name>>]]

StringRef(value) ==
    [IsConstant |-> FALSE, ConstName |-> "", FullClassValue |-> value,
     Location |-> [Column |-> 1, Text |-> LineOf(value)]]

References == {ConstRef(n) : n \in RefConstNames} \cup {StringRef(v) : v \in RefStrings}

NoRef == [IsConstant |-> TRUE, ConstName |-> "", FullClassValue |-> <<>>,
          Location |-> [Column |-> 0, Text |-> <<>>]]

\* every map the generated file can define over the names and values above
ConstantMaps ==
    UNION {[names -> ValuePool] : names \in {{}, {"A"}, ConstNames}}

-----------------------------------------------------------------------------
(* Lookup *)

\* ConstantParts holding the words of the value
buildLookupMaps_SplitParts(consts) ==
    LET values == Range(consts)
    IN  {[ExactMap |-> em,
          AllConstants |-> consts,
          ConstantParts |-> [n \in DOMAIN consts |-> Fields(consts[n])],
          AllCSSClasses |-> {}] :
            em \in {f \in [values -> DOMAIN consts] : \A v \in values : consts[f[v]] = v}}

\* buildLookupMaps: ExactMap[cssValue] = constName for every constant.  When two
\* constants have the same value the later write wins, and the order is Go's map
\* iteration order: every ExactMap that some order produces is a possible result.
buildLookupMaps(consts) ==
    LET values == Range(consts)
    IN  {[ExactMap |-> em,
          AllConstants |-> consts,
          ConstantParts |-> [n \in DOMAIN consts |-> <<consts[n]>>],
          AllCSSClasses |-> {}] :
            em \in {f \in [values -> DOMAIN consts] : \A v \in values : consts[f[v]] = v}}

\* findConstantSuggestion
findConstantSuggestion(className, lk) ==
    IF className \in DOMAIN lk.ExactMap THEN lk.ExactMap[className] ELSE ""

\* ClassificationResult
ClassMatched == "ClassMatched"
ClassBypassed == "ClassBypassed"
ClassZombie == "ClassZombie"

\* classifyClass with the two checks in the wrong order
classifyClass_ConstantFirst(className, lk) ==
    IF className \in DOMAIN lk.ExactMap THEN ClassMatched
    ELSE IF className \notin lk.AllCSSClasses THEN ClassZombie
    ELSE ClassBypassed

\* classifyClass
classifyClass(className, lk) ==
    IF className \notin lk.AllCSSClasses THEN ClassZombie
    ELSE IF className \in DOMAIN lk.ExactMap THEN ClassMatched
    ELSE ClassBypassed

MatchExact == "MatchExact"
MatchNone == "MatchNone"

\* the token loop deduplicating the suggested constants
ResolveToken_Dedup(acc, class, lk) ==
    LET base == [ClassName |-> class, Match |-> MatchNone, Suggestion |-> "", Context |-> ""]
    IN  IF class \notin lk.AllCSSClasses
        THEN [acc EXCEPT !.invalidClasses = Append(@, class),
                         !.unmatchedClasses = Append(@, class),
                         !.analysis = Append(@, base)]
        ELSE IF class \in DOMAIN lk.ExactMap /\ lk.ExactMap[class] \notin Range(acc.suggestions)
        THEN [acc EXCEPT !.suggestions = Append(@, lk.ExactMap[class]),
                         !.analysis = Append(@, [base EXCEPT !.Match = MatchExact,
                                                    !.Suggestion = lk.ExactMap[class]])]
        ELSE [acc EXCEPT !.analysis = Append(@, base)]

\* one iteration of the token loop of ResolveBestConstants
ResolveToken(acc, class, lk) ==
    LET classification == classifyClass(class, lk)
        base == [ClassName |-> class, Match |-> MatchNone, Suggestion |-> "", Context |-> ""]
    IN  CASE classification = ClassZombie ->
                [acc EXCEPT !.invalidClasses = Append(@, class),
                            !.unmatchedClasses = Append(@, class),
                            !.analysis = Append(@, base)]
          [] classification = ClassBypassed ->
                [acc EXCEPT !.analysis =
                    Append(@, [base EXCEPT !.Context = "valid CSS (no constant)"])]
          [] classification = ClassMatched ->
                IF class \in DOMAIN lk.ExactMap
                THEN [acc EXCEPT !.suggestions = Append(@, lk.ExactMap[class]),
                                 !.analysis = Append(@, [base EXCEPT
                                        !.Match = MatchExact,
                                        !.Suggestion = lk.ExactMap[class]])]
                ELSE [acc EXCEPT !.analysis = Append(@, base)]

RECURSIVE ResolveTokens(_, _, _)
ResolveTokens(acc, classes, lk) ==
    IF classes = <<>> THEN acc
    ELSE ResolveTokens(ResolveToken(acc, Head(classes), lk), Tail(classes), lk)

\* ResolveBestConstants; Analysis is <<>> for Go's nil
ResolveBestConstants(classString, lk) ==
    LET classes == Fields(classString)
    IN  IF classString \in DOMAIN lk.ExactMap
        THEN [Constants |-> <<lk.ExactMap[classString]>>,
              Analysis |-> <<>>,
              HasUnmatched |-> FALSE,
              UnmatchedClasses |-> <<>>,
              HasInvalid |-> FALSE,
              InvalidClasses |-> <<>>]
        ELSE LET acc == ResolveTokens(
                            [suggestions |-> <<>>, analysis |-> <<>>,
                             unmatchedClasses |-> <<>>, invalidClasses |-> <<>>],
                            classes, lk)
             IN  [Constants |-> acc.suggestions,
                  Analysis |-> acc.analysis,
                  HasUnmatched |-> Len(acc.unmatchedClasses) > 0,
                  UnmatchedClasses |-> acc.unmatchedClasses,
                  HasInvalid |-> Len(acc.invalidClasses) > 0,
                  InvalidClasses |-> acc.invalidClasses]

\* formatSuggestion: the pieces of the rendered text
formatSuggestion(s) ==
    IF Len(s.Constants) = 0 THEN <<"(no suggestion)">>
    ELSE IF Len(s.Constants) = 1 THEN <<"ui.", s.Constants[1]>>
    ELSE <<"{ ">>
         \o Join([i \in 1..Len(s.Constants) |-> <<"ui.", s.Constants[i]>>], <<", ">>)
         \o <<" }">>

\* isInternalClass
isInternalClass(className) == HasPrefix(className, <<"_">>)

\* hasInternalClasses
hasInternalClasses(fullClassValue) ==
    LET classes == Fields(fullClassValue)
    IN  \E i \in 1..Len(classes) : isInternalClass(classes[i])

\* findClassColumn: 1-based column of the first token of fullClassString in line, 0 if absent
findClassColumn(line, fullClassString) ==
    LET tokens == Fields(fullClassString)
        searchTarget == IF Len(tokens) > 0 THEN tokens[1] ELSE fullClassString
        classAttrIdx == Index(line, ClassAttr)
        quoteIdx == IndexAny(SliceFrom(line, classAttrIdx), {Quote, "'"})
        searchStart == classAttrIdx + quoteIdx + 1
        rest == SliceFrom(line, searchStart)
        endQuote == IndexAny(rest, {Quote, "'"})
        classesStr == IF endQuote # -1 THEN SliceTo(rest, endQuote) ELSE rest
        inAttr == Index(classesStr, searchTarget)
        quoted == Index(line, <<Quote>> \o searchTarget \o <<Quote>>)
        direct == Index(line, searchTarget)
    IN  IF classAttrIdx # -1 /\ quoteIdx # -1 /\ inAttr # -1
        THEN searchStart + inAttr + 1
        ELSE IF quoted # -1 THEN quoted + 2
        ELSE IF direct # -1 THEN direct + 1
        ELSE 0

-----------------------------------------------------------------------------
(* analyzeUsage *)

SeverityError == "error"
SeverityWarning == "warning"

\* fmt.Sprintf(IssueInvalidClass, c) and fmt.Sprintf(IssueHardcodedClass, v, s):
\* the format and its arguments
InvalidClassText(c) == <<"IssueInvalidClass", c>>
HardcodedClassText(v, s) == <<"IssueHardcodedClass", v, s>>

\* the column of an issue about target: findClassColumn, else the reference's column
IssueColumn(ref, target) ==
    LET column == findClassColumn(ref.Location.Text, target)
    IN  IF column = 0 THEN ref.Location.Column ELSE column

\* error issues for the first invalid class only
InvalidClassIssues_FirstOnly(ref, suggestion) ==
    IF suggestion.HasInvalid
    THEN <<[FromLinter |-> "csslint",
            Text |-> InvalidClassText(suggestion.InvalidClasses[1]),
            Severity |-> SeverityError,
            SourceLines |-> <<ref.Location.Text>>,
            Pos |-> [Column |-> IssueColumn(ref, suggestion.InvalidClasses[1])]]>>
    ELSE <<>>

\* the error issues of one hardcoded reference, one per entry of InvalidClasses
InvalidClassIssues(ref, suggestion) ==
    IF suggestion.HasInvalid
    THEN [i \in 1..Len(suggestion.InvalidClasses) |->
            [FromLinter |-> "csslint",
             Text |-> InvalidClassText(suggestion.InvalidClasses[i]),
             Severity |-> SeverityError,
             SourceLines |-> <<ref.Location.Text>>,
             Pos |-> [Column |-> IssueColumn(ref, suggestion.InvalidClasses[i])]]]
    ELSE <<>>

\* the warning without the check for invalid classes
HardcodedClassIssues_IgnoresInvalid(ref, suggestion) ==
    IF Len(suggestion.Constants) > 0 /\ ~hasInternalClasses(ref.FullClassValue)
    THEN <<[FromLinter |-> "csslint",
            Text |-> HardcodedClassText(ref.FullClassValue, formatSuggestion(suggestion)),
            Severity |-> SeverityWarning,
            SourceLines |-> <<ref.Location.Text>>,
            Pos |-> [Column |-> IssueColumn(ref, ref.FullClassValue)]]>>
    ELSE <<>>

\* the warning without the check for internal classes
HardcodedClassIssues_IgnoresInternal(ref, suggestion) ==
    IF Len(suggestion.Constants) > 0 /\ ~suggestion.HasInvalid
    THEN <<[FromLinter |-> "csslint",
            Text |-> HardcodedClassText(ref.FullClassValue, formatSuggestion(suggestion)),
            Severity |-> SeverityWarning,
            SourceLines |-> <<ref.Location.Text>>,
            Pos |-> [Column |-> IssueColumn(ref, ref.FullClassValue)]]>>
    ELSE <<>>

\* the warning issue of one hardcoded reference, if it gets one
HardcodedClassIssues(ref, suggestion) ==
    IF /\ Len(suggestion.Constants) > 0
       /\ ~hasInternalClasses(ref.FullClassValue)
       /\ ~suggestion.HasInvalid
    THEN <<[FromLinter |-> "csslint",
            Text |-> HardcodedClassText(ref.FullClassValue, formatSuggestion(suggestion)),
            Severity |-> SeverityWarning,
            SourceLines |-> <<ref.Location.Text>>,
            Pos |-> [Column |-> IssueColumn(ref, ref.FullClassValue)]]>>
    ELSE <<>>

\* loop body, ref.IsConstant
AnalyzeConstantRef(ref) ==
    /\ actuallyUsed' = actuallyUsed \cup {ref.ConstName}
    /\ result' = [result EXCEPT !.ConstantsFound = @ + 1]
    /\ UNCHANGED <<availableForMigration, hardcodedStrings, invalidClasses, issues>>

\* loop body, hardcoded string
AnalyzeStringRef(ref) ==
    LET suggestion == ResolveBestConstants(ref.FullClassValue, lookup)
        errors == InvalidClassIssues(ref, suggestion)
    IN  /\ invalidClasses' = invalidClasses \o
                [i \in 1..Len(errors) |->
                    [ClassName |-> suggestion.InvalidClasses[i],
                     Location |-> ref.Location]]
        /\ result' = [result EXCEPT !.ClassesFound = @ + 1,
                                    !.ErrorCount = @ + Len(errors)]
        /\ availableForMigration' = availableForMigration \cup Range(suggestion.Constants)
        /\ hardcodedStrings' =
                IF Len(suggestion.Constants) > 0
                THEN Append(hardcodedStrings,
                            [FullClassValue |-> ref.FullClassValue,
                             Suggestion |-> suggestion,
                             Location |-> ref.Location])
                ELSE hardcodedStrings
        /\ issues' = issues \o errors \o HardcodedClassIssues(ref, suggestion)
        /\ UNCHANGED actuallyUsed

\* inferLayer
inferLayer(cssClass) ==
    IF \/ HasPrefix(cssClass, <<"t", "e", "x", "t", "-">>)
       \/ HasPrefix(cssClass, <<"b", "g", "-">>)
       \/ HasPrefix(cssClass, <<"f", "l", "e", "x", "-">>)
       \/ HasPrefix(cssClass, <<"g", "r", "i", "d", "-">>)
    THEN "utilities"
    ELSE IF \/ Index(cssClass, <<"b", "t", "n">>) # -1
            \/ Index(cssClass, <<"c", "a", "r", "d">>) # -1
            \/ Index(cssClass, <<"m", "o", "d", "a", "l">>) # -1
            \/ Index(cssClass, <<"n", "a", "v">>) # -1
            \/ Index(cssClass, <<"t", "a", "b", "l", "e">>) # -1
    THEN "components"
    ELSE "base"

\* the constant names of the model in sort.Slice order (ConstName ascending)
SortedConstNames == <<"A", "B", "C">>

\* findUnusedConstants
findUnusedConstants(consts, usedConsts) ==
    LET unused == SelectSeq(SortedConstNames,
                            LAMBDA n : n \in DOMAIN consts /\ n \notin usedConsts)
    IN  [i \in 1..Len(unused) |->
            [ConstName |-> unused[i],
             CSSClass |-> consts[unused[i]],
             Layer |-> inferLayer(consts[unused[i]])]]

\* the rendered suggestion of a quick win
QuickWinSuggestion(hs) ==
    IF Len(Fields(hs.FullClassValue)) = 1
    THEN <<"ui.", hs.Suggestion.Constants[1]>>
    ELSE <<"{ ">>
         \o Join([i \in 1..Len(hs.Suggestion.Constants) |->
                    <<"ui.", hs.Suggestion.Constants[i]>>], <<", ">>)
         \o <<" }">>

\* generateQuickWins with sortByFrequency.  The two slices are sorted by
\* descending Occurrences with ties in map iteration order and cut to ten
\* entries; the model has fewer than ten class strings and keeps each slice as
\* the set of its entries.
generateQuickWins(hardcoded) ==
    LET counted == {i \in 1..Len(hardcoded) : ~hardcoded[i].Suggestion.HasUnmatched}
        IsSingle(i) == /\ Len(Fields(hardcoded[i].FullClassValue)) = 1
                       /\ Len(hardcoded[i].Suggestion.Constants) = 1
        IsMulti(i) == /\ Len(Fields(hardcoded[i].FullClassValue)) > 1
                      /\ Len(hardcoded[i].Suggestion.Constants) > 1
        Wins(idx) ==
            {[ClassName |-> hardcoded[i].FullClassValue,
              Occurrences |-> Cardinality({j \in idx :
                    hardcoded[j].FullClassValue = hardcoded[i].FullClassValue}),
              Suggestion |-> QuickWinSuggestion(hardcoded[i])] : i \in idx}
    IN  [SingleClass |-> Wins({i \in counted : IsSingle(i)}),
         MultiClass |-> Wins({i \in counted : IsMulti(i)})]

-----------------------------------------------------------------------------
(* Stylesheet tokens: the output of the css lexer that ParseCSS reads *)

Tk(tt, text) == [tt |-> tt, text |-> text]

ErrorToken == Tk("Error", <<>>)
Ident(text) == Tk("Ident", text)

\* the token of one punctuation character or blank
Symbol(c) ==
    Tk(CASE c = "." -> "Delim"
         [] c = ":" -> "Colon"
         [] c = "," -> "Comma"
         [] c = ";" -> "Semicolon"
         [] c = "{" -> "LeftBrace"
         [] c = "}" -> "RightBrace"
         [] c = "(" -> "LeftParenthesis"
         [] c = ")" -> "RightParenthesis"
         [] c = " " -> "Whitespace",
       <<c>>)

AtLayer == Tk("AtKeyword", <<"@", "l", "a", "y", "e", "r">>)

\* lexer.Next() at position i: ErrorToken at and after the end of the input
Tok(css, i) == IF i \in 1..Len(css) THEN css[i] ELSE ErrorToken

IsDot(t) == t.tt = "Delim" /\ Len(t.text) > 0 /\ t.text[1] = "."

\* strings.TrimSpace
RECURSIVE TrimLeft(_)
TrimLeft(str) ==
    IF str # <<>> /\ Head(str) \in Whitespace THEN TrimLeft(Tail(str)) ELSE str

RECURSIVE TrimRight(_)
TrimRight(str) ==
    IF str # <<>> /\ str[Len(str)] \in Whitespace
    THEN TrimRight(SubSeq(str, 1, Len(str) - 1))
    ELSE str

TrimSpace(str) == TrimRight(TrimLeft(str))

\* m[k] = v on a Go map
MapSet(m, k, v) == [x \in DOMAIN m \cup {k} |-> IF x = k THEN v ELSE m[x]]

\* the existing value kept
MapMerge_KeepsExisting(dst, src) ==
    [x \in DOMAIN dst \cup DOMAIN src |-> IF x \in DOMAIN dst THEN dst[x] ELSE src[x]]

\* for k, v := range src { dst[k] = v }
MapMerge(dst, src) ==
    [x \in DOMAIN dst \cup DOMAIN src |-> IF x \in DOMAIN src THEN src[x] ELSE dst[x]]

EmptyMap == [x \in {} |-> <<>>]

\* contains
contains(slice, val) == \E i \in 1..Len(slice) : slice[i] = val

\* for _, ps := range items { if !contains(slice, ps) { slice = append(slice, ps) } }
RECURSIVE AppendMissing(_, _)
AppendMissing(slice, items) ==
    IF items = <<>> THEN slice
    ELSE AppendMissing(IF contains(slice, Head(items)) THEN slice
                       ELSE Append(slice, Head(items)),
                       Tail(items))

-----------------------------------------------------------------------------
(* ParseCSS *)

\* handleLayerDeclaration: the tokens after @layer up to { or ;
RECURSIVE handleLayerDeclaration(_, _, _, _)
handleLayerDeclaration(css, i, layerName, currentLayer) ==
    LET t == Tok(css, i)
        name == IF t.tt = "Ident" THEN t.text ELSE layerName
    IN  IF t.tt = "Error" THEN [pos |-> i, currentLayer |-> currentLayer]
        ELSE IF t.tt = "LeftBrace"
        THEN [pos |-> i + 1,
              currentLayer |-> IF name # <<>> THEN name ELSE currentLayer]
        ELSE IF t.tt = "Semicolon" THEN [pos |-> i + 1, currentLayer |-> currentLayer]
        ELSE handleLayerDeclaration(css, i + 1, name, currentLayer)

\* the property saved at ; or at the end of the block
SaveDeclaration(props, currentProp, currentVal) ==
    IF currentProp # <<>> /\ Len(currentVal) > 0
    THEN MapSet(props, currentProp, TrimSpace(Join(currentVal, <<>>)))
    ELSE props

\* extractDeclarations: the loop, from the token after {
RECURSIVE DeclarationLoop(_, _, _, _, _)
DeclarationLoop(css, i, props, currentProp, currentVal) ==
    LET t == Tok(css, i)
    IN  IF t.tt \in {"Error", "RightBrace"}
        THEN [pos |-> i + 1, props |-> SaveDeclaration(props, currentProp, currentVal)]
        ELSE IF t.tt = "Ident" /\ currentProp = <<>>
        THEN DeclarationLoop(css, i + 1, props, t.text, currentVal)
        ELSE IF t.tt = "Colon" /\ currentProp # <<>>
        THEN DeclarationLoop(css, i + 1, props, currentProp, currentVal)
        ELSE IF t.tt = "Semicolon"
        THEN DeclarationLoop(css, i + 1, SaveDeclaration(props, currentProp, currentVal),
                             <<>>, <<>>)
        ELSE IF currentProp # <<>>
        THEN DeclarationLoop(css, i + 1, props, currentProp, Append(currentVal, t.text))
        ELSE DeclarationLoop(css, i + 1, props, currentProp, currentVal)

extractDeclarations(css, i) == DeclarationLoop(css, i, EmptyMap, <<>>, <<>>)

\* selectorInfo
SelectorInfo(className) == [className |-> className, pseudoStates |-> <<>>]

FunctionalPseudo == {<<"n", "o", "t">>, <<"i", "s">>, <<"w", "h", "e", "r", "e">>}

\* the loop over the tokens inside :not( ... ), :is( ... ), :where( ... )
RECURSIVE ParenthesisLoop(_, _, _, _)
ParenthesisLoop(css, i, depth, selectors) ==
    LET t == Tok(css, i)
        t2 == Tok(css, i + 1)
    IN  IF t.tt = "Error" THEN [pos |-> i + 1, selectors |-> selectors]
        ELSE IF t.tt = "LeftParenthesis"
        THEN ParenthesisLoop(css, i + 1, depth + 1, selectors)
        ELSE IF t.tt = "RightParenthesis"
        THEN IF depth - 1 = 0
             THEN [pos |-> i + 1, selectors |-> selectors]
             ELSE ParenthesisLoop(css, i + 1, depth - 1, selectors)
        ELSE IF IsDot(t)
        THEN ParenthesisLoop(css, i + 2, depth,
                             IF t2.tt = "Ident"
                             THEN Append(selectors, SelectorInfo(t2.text))
                             ELSE selectors)
        ELSE ParenthesisLoop(css, i + 1, depth, selectors)

\* the loop after a comma: up to the next class selector, {, or the end
RECURSIVE CommaLoop(_, _, _, _)
CommaLoop(css, i, selectors, currentIdx) ==
    LET t2 == Tok(css, i)
        t3 == Tok(css, i + 1)
    IN  IF t2.tt \in {"Error", "LeftBrace"}
        THEN [pos |-> i + 1, selectors |-> selectors, currentIdx |-> currentIdx]
        ELSE IF IsDot(t2)
        THEN IF t3.tt = "Ident"
             THEN [pos |-> i + 2,
                   selectors |-> Append(selectors, SelectorInfo(t3.text)),
                   currentIdx |-> Len(selectors) + 1]
             ELSE CommaLoop(css, i + 2, selectors, currentIdx)
        ELSE CommaLoop(css, i + 1, selectors, currentIdx)

\* a CSSClass as handleClassRule creates it; ParentClass is a position in the
\* heap of records, 0 for nil
NewClass(className, layer, filename) ==
    [Name |-> className,
     GoName |-> <<>>,
     Layer |-> layer,
     Properties |-> EmptyMap,
     ParentClass |-> 0,
     PseudoStates |-> <<>>,
     PseudoStateProperties |-> <<>>,
     PropertyDiff |-> <<>>,
     IsUtility |-> FALSE,
     IsInternal |-> HasPrefix(className, <<"_">>),
     SourceFile |-> filename]

\* the pseudo-state rule also merged into the base properties
ApplySelector_PseudoMergesBase(s, sel, properties, filename) ==
    LET exists == sel.className \in DOMAIN s.classes
        layer == IF s.currentLayer = <<>> /\ s.inferredLayer # <<>>
                 THEN s.inferredLayer ELSE s.currentLayer
        class == IF exists THEN s.classes[sel.className]
                 ELSE NewClass(sel.className, layer, filename)
        changes == [prop \in {q \in DOMAIN properties :
                                q \notin DOMAIN class.Properties
                                \/ class.Properties[q] # properties[q]}
                      |-> properties[prop]]
        deltas == IF DOMAIN changes # {}
                  THEN [k \in 1..Len(sel.pseudoStates) |->
                            [PseudoState |-> sel.pseudoStates[k], Changes |-> changes]]
                  ELSE <<>>
        updated == IF Len(sel.pseudoStates) > 0
                   THEN [class EXCEPT
                            !.PseudoStateProperties = @ \o deltas,
                            !.PseudoStates = AppendMissing(@, sel.pseudoStates),
                            !.Properties = MapMerge(@, properties)]
                   ELSE [class EXCEPT !.Properties = MapMerge(@, properties)]
    IN  [s EXCEPT !.classes = MapSet(@, sel.className, updated)]

\* the body of the loop that applies a declaration block to one selector
ApplySelector(s, sel, properties, filename) ==
    LET exists == sel.className \in DOMAIN s.classes
        layer == IF s.currentLayer = <<>> /\ s.inferredLayer # <<>>
                 THEN s.inferredLayer ELSE s.currentLayer
        class == IF exists THEN s.classes[sel.className]
                 ELSE NewClass(sel.className, layer, filename)
        changes == [prop \in {q \in DOMAIN properties :
                                q \notin DOMAIN class.Properties
                                \/ class.Properties[q] # properties[q]}
                      |-> properties[prop]]
        deltas == IF DOMAIN changes # {}
                  THEN [k \in 1..Len(sel.pseudoStates) |->
                            [PseudoState |-> sel.pseudoStates[k], Changes |-> changes]]
                  ELSE <<>>
        updated == IF Len(sel.pseudoStates) > 0
                   THEN [class EXCEPT
                            !.PseudoStateProperties = @ \o deltas,
                            !.PseudoStates = AppendMissing(@, sel.pseudoStates)]
                   ELSE [class EXCEPT !.Properties = MapMerge(@, properties)]
    IN  [s EXCEPT !.classes = MapSet(@, sel.className, updated)]

\* the block applied to the first selector only
ApplySelectors_FirstOnly(s, selectors, properties, filename) ==
    IF selectors = <<>> THEN s
    ELSE ApplySelector(s, Head(selectors), properties, filename)

RECURSIVE ApplySelectors(_, _, _, _)
ApplySelectors(s, selectors, properties, filename) ==
    IF selectors = <<>> THEN s
    ELSE ApplySelectors(ApplySelector(s, Head(selectors), properties, filename),
                        Tail(selectors), properties, filename)

\* handleClassRule: the loop over the selector tokens after the first class name
RECURSIVE SelectorLoop(_, _, _, _, _, _)
SelectorLoop(css, i, selectors, currentIdx, s, filename) ==
    LET t == Tok(css, i)
        t2 == Tok(css, i + 1)
        t3 == Tok(css, i + 2)
    IN  IF t.tt = "Error" THEN [s EXCEPT !.pos = i + 1]
        ELSE IF IsDot(t)
        THEN IF t2.tt = "Ident"
             THEN SelectorLoop(css, i + 2, Append(selectors, SelectorInfo(t2.text)),
                               Len(selectors) + 1, s, filename)
             ELSE SelectorLoop(css, i + 2, selectors, currentIdx, s, filename)
        ELSE IF t.tt = "Colon"
        THEN IF t2.tt # "Ident"
             THEN SelectorLoop(css, i + 2, selectors, currentIdx, s, filename)
             ELSE IF t2.text \in FunctionalPseudo
             THEN IF t3.tt = "LeftParenthesis"
                  THEN LET r == ParenthesisLoop(css, i + 3, 1, selectors)
                       IN  SelectorLoop(css, r.pos, r.selectors, currentIdx, s, filename)
                  ELSE SelectorLoop(css, i + 3, selectors, currentIdx, s, filename)
             ELSE SelectorLoop(css, i + 2,
                               [selectors EXCEPT ![currentIdx].pseudoStates =
                                    Append(@, <<":">> \o t2.text)],
                               currentIdx, s, filename)
        ELSE IF t.tt = "Comma"
        THEN LET r == CommaLoop(css, i + 1, selectors, currentIdx)
             IN  SelectorLoop(css, r.pos, r.selectors, r.currentIdx, s, filename)
        ELSE IF t.tt = "LeftBrace"
        THEN LET d == extractDeclarations(css, i + 1)
             IN  [ApplySelectors(s, selectors, d.props, filename) EXCEPT !.pos = d.pos]
        ELSE SelectorLoop(css, i + 1, selectors, currentIdx, s, filename)

\* handleClassRule, from the token after the `.`
handleClassRule(css, i, s, filename) ==
    LET t == Tok(css, i)
    IN  IF t.tt # "Ident" THEN [s EXCEPT !.pos = i + 1]
        ELSE SelectorLoop(css, i + 1, <<SelectorInfo(t.text)>>, 1, s, filename)

\* the token loop of ParseCSS
RECURSIVE ParseLoop(_, _, _)
ParseLoop(css, s, filename) ==
    LET t == Tok(css, s.pos)
    IN  IF t.tt = "Error" THEN s
        ELSE IF t.tt = "AtKeyword" /\ t.text = AtLayer.text
        THEN LET r == handleLayerDeclaration(css, s.pos + 1, <<>>, s.currentLayer)
             IN  ParseLoop(css, [s EXCEPT !.pos = r.pos, !.currentLayer = r.currentLayer],
                           filename)
        ELSE IF IsDot(t)
        THEN ParseLoop(css, handleClassRule(css, s.pos + 1, s, filename), filename)
        ELSE ParseLoop(css, [s EXCEPT !.pos = @ + 1], filename)

\* all orders of the elements of a set
Orderings(S) ==
    {p \in [1..Cardinality(S) -> S] : \A i, j \in 1..Cardinality(S) : p[i] = p[j] => i = j}

\* ParseCSS: the classes of the stylesheet, keyed by name (state.classes)
ParsedClasses(content, filename, inferredLayer) ==
    ParseLoop(content,
              [pos |-> 1, currentLayer |-> <<>>, inferredLayer |-> inferredLayer,
               classes |-> EmptyMap],
              filename).classes

\* ParseCSS: the result slice is filled by ranging over the map state.classes,
\* so it holds the records in any order (config.ExtractIntent is off)
ParseCSS(content, filename, inferredLayer) ==
    LET parsed == ParsedClasses(content, filename, inferredLayer)
    IN  {[k \in 1..Len(order) |-> parsed[order[k]]] : order \in Orderings(DOMAIN parsed)}

-----------------------------------------------------------------------------
(* Lint pipeline: ParseGeneratedFile, buildLookupMaps, analyzeUsage *)

EmptyResult ==
    [TotalConstants |-> 0, ActuallyUsed |-> 0, AvailableForMigration |-> 0,
     CompletelyUnused |-> 0, UsagePercentage |-> 0,
     Issues |-> <<>>, IssuesByCategory |-> [s \in {} |-> <<>>],
     UnusedClasses |-> <<>>, HardcodedStrings |-> <<>>, InvalidClasses |-> <<>>,
     ClassesFound |-> 0, ConstantsFound |-> 0, ErrorCount |-> 0,
     TruncatedCount |-> 0,
     QuickWins |-> [SingleClass |-> {}, MultiClass |-> {}]]

\* the flags of one run: the entry point (main of the flag-based command,
\* runLint of the lint subcommand), -strict, -quiet, -threshold and the limits
NotExited == [entry |-> "", strict |-> FALSE, quiet |-> FALSE, threshold |-> 0,
              MaxIssuesPerLinter |-> 0, MaxSameIssues |-> 0, code |-> 0]

NoLookup == [ExactMap |-> <<>>, AllConstants |-> <<>>, ConstantParts |-> <<>>,
             AllCSSClasses |-> {}]

\* the generated file on disk: a glob pattern that filepath.Glob accepts or
\* rejects, and a file that parser.ParseFile can or cannot read and parse
GeneratedFiles ==
    {[pattern |-> "ok", parses |-> TRUE, constants |-> c, classes |-> k] :
        c \in ConstantMaps, k \in SUBSET TokenPool}
    \cup {[pattern |-> "ok", parses |-> FALSE, constants |-> <<>>, classes |-> {}],
          [pattern |-> "bad", parses |-> FALSE, constants |-> <<>>, classes |-> {}]}

\* the state at the call of Lint, but for the scanned file
LintInit ==
    /\ pc = "parseGenerated"
    /\ generated \in GeneratedFiles
    /\ constants = <<>>
    /\ allCSSClasses = {}
    /\ lookup = NoLookup
    /\ cur = NoRef
    /\ curFrom = 0
    /\ actuallyUsed = {}
    /\ availableForMigration = {}
    /\ hardcodedStrings = <<>>
    /\ invalidClasses = <<>>
    /\ issues = <<>>
    /\ result = EmptyResult
    /\ exit = NotExited
    /\ files = <<>>
    /\ fileIdx = 0
    /\ heap = <<>>
    /\ allClasses = <<>>
    /\ warnings = <<>>
    /\ publicClasses = <<>>
    /\ run = 0
    /\ previous = {}
    /\ references = <<>>

\* Lint on any references: no file is scanned, the loop of analyzeUsage is
\* given up to MaxRefs references of References
Init == LintInit /\ source = <<>>

\* Lint step 1, ParseGeneratedFile: a glob error is returned and Lint fails;
\* a file that cannot be parsed is skipped and the empty maps are returned
\* with a nil error
ParseGeneratedFile ==
    /\ pc = "parseGenerated"
    /\ IF generated.pattern = "bad"
       THEN /\ pc' = "failed"
            /\ UNCHANGED <<constants, allCSSClasses>>
       ELSE /\ pc' = "lookup"
            /\ constants' = IF generated.parses THEN generated.constants ELSE <<>>
            /\ allCSSClasses' = IF generated.parses THEN generated.classes ELSE {}
    /\ UNCHANGED <<lookup, cur, curFrom, actuallyUsed, availableForMigration,
                   hardcodedStrings, invalidClasses, issues, result, generated,
                   exit, source, references>>
    /\ UNCHANGED genVars

\* Lint steps 2 and 5 up to the loop: the lookup and the empty result
BuildLookupThen(next) ==
    /\ pc = "lookup"
    /\ \E lk \in buildLookupMaps(constants) :
          lookup' = [lk EXCEPT !.AllCSSClasses = allCSSClasses]
    /\ result' = [result EXCEPT !.TotalConstants = Cardinality(DOMAIN constants)]
    /\ pc' = next
    /\ UNCHANGED <<constants, allCSSClasses, cur, curFrom, actuallyUsed,
                   availableForMigration, hardcodedStrings, invalidClasses, issues,
                   generated, exit, source, references>>
    /\ UNCHANGED genVars

BuildLookup == BuildLookupThen("analyze")

\* one iteration of the loop over references
AnalyzeRef ==
    /\ pc = "analyze"
    /\ result.ConstantsFound + result.ClassesFound < MaxRefs
    /\ \E ref \in References :
          /\ cur' = ref
          /\ curFrom' = Len(issues)
          /\ IF ref.IsConstant THEN AnalyzeConstantRef(ref) ELSE AnalyzeStringRef(ref)
    /\ UNCHANGED <<pc, constants, allCSSClasses, lookup, generated, exit, source,
                   references>>
    /\ UNCHANGED genVars

\* the statistics computed after the loop
Summarize ==
    /\ pc = "analyze"
    /\ result' =
        [result EXCEPT
            !.ActuallyUsed = Cardinality(actuallyUsed),
            !.AvailableForMigration = Cardinality(availableForMigration),
            !.CompletelyUnused = result.TotalConstants - Cardinality(actuallyUsed)
                                    - Cardinality(availableForMigration),
            !.HardcodedStrings = hardcodedStrings,
            !.InvalidClasses = invalidClasses,
            !.UsagePercentage =
                IF result.TotalConstants > 0
                THEN (Cardinality(actuallyUsed) * 100) \div result.TotalConstants
                ELSE 0,
            !.UnusedClasses =
                findUnusedConstants(constants, actuallyUsed \cup availableForMigration),
            !.QuickWins = generateQuickWins(hardcodedStrings),
            !.Issues = issues,
            !.IssuesByCategory =
                [s \in {issues[i].Severity : i \in 1..Len(issues)} |->
                    SelectSeq(issues, LAMBDA is : is.Severity = s)]]
    /\ pc' = "analyzed"
    /\ UNCHANGED <<constants, allCSSClasses, lookup, cur, curFrom, actuallyUsed,
                   availableForMigration, hardcodedStrings, invalidClasses, issues,
                   generated, exit, source, references>>
    /\ UNCHANGED genVars

\* one issue more than maxSame kept of every message text
deduplicateSameIssues_OneMore(list, maxSame) ==
    LET kept == {i \in 1..Len(list) :
                    Cardinality({j \in 1..(i - 1) : list[j].Text = list[i].Text})
                        <= maxSame}
        F[i \in 0..Len(list)] ==
            IF i = 0 THEN <<>>
            ELSE IF i \in kept THEN Append(F[i - 1], list[i]) ELSE F[i - 1]
    IN  F[Len(list)]

\* deduplicateSameIssues: at most maxSame issues of one message text are kept
deduplicateSameIssues(list, maxSame) ==
    LET F[i \in 0..Len(list)] ==
            IF i = 0 THEN [messageCounts |-> EmptyMap, filtered |-> <<>>]
            ELSE LET st == F[i - 1]
                     text == list[i].Text
                     count == IF text \in DOMAIN st.messageCounts
                              THEN st.messageCounts[text] ELSE 0
                 IN  IF count < maxSame
                     THEN [messageCounts |-> MapSet(st.messageCounts, text, count + 1),
                           filtered |-> Append(st.filtered, list[i])]
                     ELSE st
    IN  F[Len(list)].filtered

\* limitIssues: the issues that remain and the number of issues removed
limitIssues(list, config) ==
    LET cut == IF config.MaxIssuesPerLinter > 0
                  /\ Len(list) > config.MaxIssuesPerLinter
               THEN SubSeq(list, 1, config.MaxIssuesPerLinter)
               ELSE list
        out == IF config.MaxSameIssues > 0
               THEN deduplicateSameIssues(cut, config.MaxSameIssues)
               ELSE cut
    IN  [issues |-> out, truncatedCount |-> Len(list) - Len(out)]

\* values of the flags -max-issues-per-linter and -max-same-issues
LimitPool == {0, 1, 2}

ThresholdPool == {0, 100}

EntryPoints == {"main", "runLint"}

\* Lint step 7: the issues are limited when one of the limits is set
LimitIssues ==
    /\ pc = "analyzed"
    /\ \E perLinter \in LimitPool, same \in LimitPool :
          LET config == [exit EXCEPT !.MaxIssuesPerLinter = perLinter,
                                     !.MaxSameIssues = same]
              limited == limitIssues(result.Issues, config)
          IN  /\ exit' = config
              /\ result' =
                    IF perLinter > 0 \/ same > 0
                    THEN [result EXCEPT !.Issues = limited.issues,
                                        !.TruncatedCount = limited.truncatedCount]
                    ELSE result
    /\ pc' = "limited"
    /\ UNCHANGED <<constants, allCSSClasses, lookup, cur, curFrom, actuallyUsed,
                   availableForMigration, hardcodedStrings, invalidClasses, issues,
                   generated, source, references>>
    /\ UNCHANGED genVars

\* the exit code logic of main
mainExitCode(lintResult, flags) ==
    IF flags.strict
    THEN LET belowThreshold == /\ flags.threshold > 0
                               /\ lintResult.UsagePercentage < flags.threshold
         IN  IF belowThreshold /\ ~flags.quiet THEN 1
             ELSE IF Len(lintResult.Issues) > 0 THEN 1 ELSE 0
    ELSE IF lintResult.ErrorCount > 0 THEN 1 ELSE 0

\* the exit code logic of runLint
runLintExitCode(lintResult, flags) ==
    IF flags.strict
    THEN IF Len(lintResult.Issues) > 0 THEN 1
         ELSE IF flags.threshold > 0 /\ lintResult.UsagePercentage < flags.threshold
         THEN 1
         ELSE 0
    ELSE IF lintResult.ErrorCount > 0 THEN 1 ELSE 0

\* the process exits after Lint has returned its result
Exit ==
    /\ pc = "limited"
    /\ \E entry \in EntryPoints, strict \in BOOLEAN, quiet \in BOOLEAN,
          threshold \in ThresholdPool :
          LET flags == [exit EXCEPT !.entry = entry, !.strict = strict,
                                    !.quiet = quiet, !.threshold = threshold]
          IN  exit' = [flags EXCEPT !.code =
                            IF entry = "main"
                            THEN mainExitCode(result, flags)
                            ELSE runLintExitCode(result, flags)]
    /\ pc' = "exited"
    /\ UNCHANGED <<constants, allCSSClasses, lookup, cur, curFrom, actuallyUsed,
                   availableForMigration, hardcodedStrings, invalidClasses, issues,
                   result, generated, source, references>>
    /\ UNCHANGED genVars

Next == ParseGeneratedFile \/ BuildLookup \/ AnalyzeRef \/ Summarize

Spec == Init /\ [][Next]_vars

-----------------------------------------------------------------------------
(* Analyzer: toGoName, detectBEMPattern, DiffProperties, AnalyzeClasses *)

\* strings.FieldsFunc: split around runs of separator runes, no empty fields
RECURSIVE FieldsFunc(_, _, _, _)
FieldsFunc(str, seps, i, field) ==
    IF i > Len(str)
    THEN IF field = <<>> THEN <<>> ELSE <<field>>
    ELSE IF str[i] \in seps
         THEN IF field = <<>>
              THEN FieldsFunc(str, seps, i + 1, <<>>)
              ELSE <<field>> \o FieldsFunc(str, seps, i + 1, <<>>)
         ELSE FieldsFunc(str, seps, i + 1, Append(field, str[i]))

\* unicode.ToUpper on the letters of the modelled names
ToUpper(r) ==
    CASE r = "a" -> "A"
      [] r = "b" -> "B"
      [] r = "h" -> "H"
      [] OTHER -> r

\* strings.TrimPrefix
TrimPrefix(str, prefix) ==
    IF HasPrefix(str, prefix) THEN SubSeq(str, Len(prefix) + 1, Len(str)) ELSE str

\* toGoName
toGoName(className) ==
    LET name0 == TrimPrefix(className, <<".">>)
        isInternal == HasPrefix(name0, <<"_">>)
        name == TrimPrefix(name0, <<"_">>)
        parts == FieldsFunc(name, {"-", "_"}, 1, <<>>)
        pascal == [i \in 1..Len(parts) |->
                      <<ToUpper(parts[i][1])>> \o Tail(parts[i])]
        joined == Join(pascal, <<>>)
    IN  IF isInternal THEN <<"_">> \o joined ELSE joined

\* the decimal digits of fmt.Sprintf("%d", n), n >= 0
Digit(d) ==
    CASE d = 0 -> "0" [] d = 1 -> "1" [] d = 2 -> "2" [] d = 3 -> "3" [] d = 4 -> "4"
      [] d = 5 -> "5" [] d = 6 -> "6" [] d = 7 -> "7" [] d = 8 -> "8" [] d = 9 -> "9"

RECURSIVE Decimal(_)
Decimal(n) ==
    IF n < 10 THEN <<Digit(n)>> ELSE Decimal(n \div 10) \o <<Digit(n % 10)>>

\* strings.Contains
Contains(str, sub) == Index(str, sub) >= 0

\* strings.Split(str, sep)[0]
SplitFirst(str, sep) ==
    IF Contains(str, sep) THEN SliceTo(str, Index(str, sep)) ELSE str

\* only the modifier separator recognised
detectBEMPattern_ModifierOnly(className) ==
    IF Contains(className, <<"-", "-">>)
    THEN [base |-> SplitFirst(className, <<"-", "-">>), isModifier |-> TRUE]
    ELSE [base |-> <<>>, isModifier |-> FALSE]

\* detectBEMPattern
detectBEMPattern(className) ==
    IF Contains(className, <<"-", "-">>)
    THEN [base |-> SplitFirst(className, <<"-", "-">>), isModifier |-> TRUE]
    ELSE IF Contains(className, <<"_", "_">>)
    THEN [base |-> SplitFirst(className, <<"_", "_">>), isModifier |-> TRUE]
    ELSE [base |-> <<>>, isModifier |-> FALSE]

\* DiffProperties; Unchanged is a sorted slice, kept as the set of its elements
DiffProperties(modifier, base) ==
    LET mod == modifier.Properties
        bas == base.Properties
        changed == {n \in DOMAIN mod : n \in DOMAIN bas /\ bas[n] # mod[n]}
        added == {n \in DOMAIN mod : n \notin DOMAIN bas}
    IN  [Added |-> [n \in added |-> mod[n]],
         Changed |-> [n \in changed |-> mod[n]],
         Unchanged |-> {n \in DOMAIN mod : n \in DOMAIN bas /\ bas[n] = mod[n]}]

\* AnalyzeClasses, first loops: classMap (the last record of a name wins),
\* ParentClass, IsUtility and the initial GoName of every record of the slice
LinkClasses(h, cl) ==
    LET classMap == [n \in {h[cl[p]].Name : p \in 1..Len(cl)} |->
                        cl[Max({p \in 1..Len(cl) : h[cl[p]].Name = n})]]
        Linked(class) ==
            LET bem == detectBEMPattern(class.Name)
                link == bem.isModifier /\ bem.base # <<>>
            IN  [class EXCEPT
                    !.ParentClass = IF link /\ bem.base \in DOMAIN classMap
                                    THEN classMap[bem.base] ELSE @,
                    !.IsUtility = IF link THEN @ ELSE ~bem.isModifier,
                    !.GoName = toGoName(class.Name)]
    IN  [x \in DOMAIN h |-> IF x \in Range(cl) THEN Linked(h[x]) ELSE h[x]]

\* AnalyzeClasses, second loop: PropertyDiff of the records with a parent
ComputeDiffs(h, cl) ==
    [x \in DOMAIN h |->
        IF x \in Range(cl) /\ h[x].ParentClass # 0
        THEN [h[x] EXCEPT !.PropertyDiff = DiffProperties(h[x], h[h[x].ParentClass])]
        ELSE h[x]]

\* goNameMap: GoName -> the positions of the slice with that GoName, in slice order
GoNameMap(h, cl) ==
    [g \in {h[cl[p]].GoName : p \in 1..Len(cl)} |->
        SelectSeq([p \in 1..Len(cl) |-> p], LAMBDA p : h[cl[p]].GoName = g)]

ResolveCollisions_SuffixIsIndex(h, cl) ==
    LET goNameMap == GoNameMap(h, cl)
        Renamed(x) ==
            LET goName == h[x].GoName
                classList == goNameMap[goName]
                i == (CHOOSE k \in 1..Len(classList) : cl[classList[k]] = x) - 1
            IN  IF Len(classList) > 1 /\ i > 0
                THEN [h[x] EXCEPT !.GoName = goName \o Decimal(i)]
                ELSE h[x]
    IN  [x \in DOMAIN h |-> IF x \in Range(cl) THEN Renamed(x) ELSE h[x]]

\* AnalyzeClasses, collision loop: in a group of more than one record, the
\* record at 0-based index i > 0 gets goName followed by i+1. The groups are
\* disjoint, so the order in which the map goNameMap is ranged over is immaterial
ResolveCollisions(h, cl) ==
    LET goNameMap == GoNameMap(h, cl)
        Renamed(x) ==
            LET goName == h[x].GoName
                classList == goNameMap[goName]
                i == (CHOOSE k \in 1..Len(classList) : cl[classList[k]] = x) - 1
            IN  IF Len(classList) > 1 /\ i > 0
                THEN [h[x] EXCEPT !.GoName = goName \o Decimal(i + 1)]
                ELSE h[x]
    IN  [x \in DOMAIN h |-> IF x \in Range(cl) THEN Renamed(x) ELSE h[x]]

\* AnalyzeClasses on a slice of distinct records
AnalyzeClasses(h, cl) ==
    ResolveCollisions(ComputeDiffs(LinkClasses(h, cl), cl), cl)

\* mergeConflicts, the loop: state [heap, classMap, warnings] after the records
\* cl[1..n]
RECURSIVE MergeLoop(_, _, _)
MergeLoop(h, cl, n) ==
    IF n = 0 THEN [heap |-> h, classMap |-> EmptyMap, warnings |-> <<>>]
    ELSE LET m == MergeLoop(h, cl, n - 1)
             class == m.heap[cl[n]]
         IN  IF class.Name \notin DOMAIN m.classMap
             THEN [m EXCEPT !.classMap = MapSet(@, class.Name, cl[n])]
             ELSE LET e == m.classMap[class.Name]
                      existing == m.heap[e]
                  IN  [m EXCEPT
                         !.heap[e].Properties = MapMerge(@, class.Properties),
                         !.heap[e].PseudoStates = AppendMissing(@, class.PseudoStates),
                         !.warnings = Append(@, [Duplicate |-> class.Name,
                                                 In |-> existing.SourceFile,
                                                 And |-> class.SourceFile])]

\* mergeConflicts: the result slice is filled by ranging over classMap
mergeConflicts(h, cl) ==
    LET m == MergeLoop(h, cl, Len(cl))
    IN  {[heap |-> m.heap,
          classes |-> [k \in 1..Len(order) |-> m.classMap[order[k]]],
          warnings |-> m.warnings] : order \in Orderings(DOMAIN m.classMap)}

-----------------------------------------------------------------------------
(* Generator inputs: stylesheets as the lexer's token sequences *)

NameA == <<"a">>
NameAB == <<"a", "-", "b">>
NameA_B == <<"a", "_", "b">>
NameAB2 == <<"a", "-", "b", "2">>
NameAModB == <<"a", "-", "-", "b">>
NameInternal == <<"_", "a">>
NameAElemB == <<"a", "_", "_", "b">>

\* prop: value;
Declaration(prop, value) ==
    <<Ident(<<prop>>), Symbol(":"), Symbol(" "), Ident(<<value>>), Symbol(";")>>

\* .name { declarations }
Rule(name, declarations) ==
    <<Symbol("."), Ident(name), Symbol(" "), Symbol("{")>> \o declarations \o <<Symbol("}"), Symbol(" ")>>

\* .a-b { c: r; } .a_b { c: r; }
SheetCollision ==
    Rule(NameAB, Declaration("c", "r")) \o Rule(NameA_B, Declaration("c", "r"))

\* .a-b { c: r; } .a_b { c: r; } .a-b2 { c: r; }
SheetSuffixClash ==
    SheetCollision \o Rule(NameAB2, Declaration("c", "r"))

\* .a { c: r; d: r; } .a--b { c: b; d: r; } .a:h { c: b; } ._a { c: r; }
SheetBEM ==
    Rule(NameA, Declaration("c", "r") \o Declaration("d", "r"))
    \o Rule(NameAModB, Declaration("c", "b") \o Declaration("d", "r"))
    \o <<Symbol("."), Ident(NameA), Symbol(":"), Ident(<<"h">>), Symbol("{")>>
    \o Declaration("c", "b") \o <<Symbol("}")>>
    \o Rule(NameInternal, Declaration("c", "r"))

\* @layer l { .a-b, .a { c: b; } }
SheetLayer ==
    <<AtLayer, Symbol(" "), Ident(<<"l">>), Symbol(" "), Symbol("{"),
      Symbol("."), Ident(NameAB), Symbol(","), Symbol(" "), Symbol("."), Ident(NameA), Symbol(" "), Symbol("{")>>
    \o Declaration("c", "b") \o <<Symbol("}"), Symbol("}")>>

\* @layer l { .a { c: r; } } .a-b { c: r; }
SheetLayerClosed ==
    <<AtLayer, Symbol(" "), Ident(<<"l">>), Symbol(" "), Symbol("{")>>
    \o Rule(NameA, Declaration("c", "r")) \o <<Symbol("}"), Symbol(" ")>>
    \o Rule(NameAB, Declaration("c", "r"))

\* stylesheets with, for each class, the name of the @layer block that encloses
\* its first declaration in the text, <<>> when no block does
LayerSheets ==
    {[content |-> SheetLayer,
      enclosing |-> [n \in {NameAB, NameA} |-> <<"l">>]],
     [content |-> SheetLayerClosed,
      enclosing |-> [n \in {NameA, NameAB} |-> IF n = NameA THEN <<"l">> ELSE <<>>]],
     [content |-> SheetCollision,
      enclosing |-> [n \in {NameAB, NameA_B} |-> <<>>]]}

\* .name:pseudo { declarations }
PseudoRule(name, pseudo, declarations) ==
    <<Symbol("."), Ident(name), Symbol(":"), Ident(<<pseudo>>), Symbol(" "), Symbol("{")>>
    \o declarations \o <<Symbol("}"), Symbol(" ")>>

\* stylesheets that end with a rule .a:h { ... }: the rules before it, the rule,
\* and the declarations of its block
\* .a { c: r; d: r; } .a:h { c: b; d: r; }
\* .a { c: r; } .a:h { c: b; } .a:h { c: b; }
\* .a { c: r; } .a:h { c: r; }
\* .a:h { c: b; }
PseudoSheets ==
    {[before |-> Rule(NameA, Declaration("c", "r") \o Declaration("d", "r")),
      rule |-> PseudoRule(NameA, "h", Declaration("c", "b") \o Declaration("d", "r")),
      block |-> [q \in {<<"c">>, <<"d">>} |-> IF q = <<"c">> THEN <<"b">> ELSE <<"r">>]],
     [before |-> Rule(NameA, Declaration("c", "r"))
                 \o PseudoRule(NameA, "h", Declaration("c", "b")),
      rule |-> PseudoRule(NameA, "h", Declaration("c", "b")),
      block |-> [q \in {<<"c">>} |-> <<"b">>]],
     [before |-> Rule(NameA, Declaration("c", "r")),
      rule |-> PseudoRule(NameA, "h", Declaration("c", "r")),
      block |-> [q \in {<<"c">>} |-> <<"r">>]],
     [before |-> <<>>,
      rule |-> PseudoRule(NameA, "h", Declaration("c", "b")),
      block |-> [q \in {<<"c">>} |-> <<"b">>]]}

\* stylesheets with a compound selector, the classes of the compound and the
\* declarations of its block
\* .a.a-b { c: r; d: b; }
\* .a { c: b; } .a.a-b.a_b { c: r; }
CompoundSheets ==
    {[content |-> <<Symbol("."), Ident(NameA), Symbol("."), Ident(NameAB), Symbol(" "),
                    Symbol("{")>>
                  \o Declaration("c", "r") \o Declaration("d", "b") \o <<Symbol("}")>>,
      classes |-> {NameA, NameAB},
      block |-> [q \in {<<"c">>, <<"d">>} |-> IF q = <<"c">> THEN <<"r">> ELSE <<"b">>]],
     [content |-> Rule(NameA, Declaration("c", "b"))
                  \o <<Symbol("."), Ident(NameA), Symbol("."), Ident(NameAB),
                       Symbol("."), Ident(NameA_B), Symbol(" "), Symbol("{")>>
                  \o Declaration("c", "r") \o <<Symbol("}")>>,
      classes |-> {NameA, NameAB, NameA_B},
      block |-> [q \in {<<"c">>} |-> <<"r">>]]}

\* stylesheets whose last rule has a pseudo-class after a later class of a
\* compound or descendant selector: the rules before it, the rule, its classes
\* .a.a-b:h { c: r; }
\* .a { c: b; } .a .a-b:h { c: r; }
PseudoCompoundSheets ==
    {[before |-> <<>>,
      rule |-> <<Symbol("."), Ident(NameA), Symbol("."), Ident(NameAB), Symbol(":"),
                 Ident(<<"h">>), Symbol(" "), Symbol("{")>>
               \o Declaration("c", "r") \o <<Symbol("}")>>,
      classes |-> {NameA, NameAB}],
     [before |-> Rule(NameA, Declaration("c", "b")),
      rule |-> <<Symbol("."), Ident(NameA), Symbol(" "), Symbol("."), Ident(NameAB),
                 Symbol(":"), Ident(<<"h">>), Symbol(" "), Symbol("{")>>
               \o Declaration("c", "r") \o <<Symbol("}")>>,
      classes |-> {NameA, NameAB}]}

\* stylesheets with a selector list, and the properties that the rules of the
\* text declare for each class
\* .a, .a-b { c: r; }
\* .a, div { c: r; } .a-b { d: r; }
CommaSheets ==
    {[content |-> <<Symbol("."), Ident(NameA), Symbol(","), Symbol(" "),
                    Symbol("."), Ident(NameAB), Symbol(" "), Symbol("{")>>
                  \o Declaration("c", "r") \o <<Symbol("}")>>,
      declared |-> [n \in {NameA, NameAB} |-> [q \in {<<"c">>} |-> <<"r">>]]],
     [content |-> <<Symbol("."), Ident(NameA), Symbol(","), Symbol(" "),
                    Ident(<<"d", "i", "v">>), Symbol(" "), Symbol("{")>>
                  \o Declaration("c", "r") \o <<Symbol("}"), Symbol(" ")>>
                  \o Rule(NameAB, Declaration("d", "r")),
      declared |-> [n \in {NameA, NameAB} |->
                      IF n = NameA THEN [q \in {<<"c">>} |-> <<"r">>]
                      ELSE [q \in {<<"d">>} |-> <<"r">>]]]}

\* the lexer's token for `not(`: an identifier directly followed by ( is one
\* FunctionToken
NotFunction == Tk("Function", <<"n", "o", "t", "(">>)

\* stylesheets with :not( ... ), and the pseudo-states written for each class
\* .a:not(.a-b) { c: r; }
\* .a:not(.a-b):h { c: r; }
FunctionalSheets ==
    {[content |-> <<Symbol("."), Ident(NameA), Symbol(":"), NotFunction,
                    Symbol("."), Ident(NameAB), Symbol(")"), Symbol(" "), Symbol("{")>>
                  \o Declaration("c", "r") \o <<Symbol("}")>>,
      pseudo |-> [n \in {NameA, NameAB} |-> <<>>]],
     [content |-> <<Symbol("."), Ident(NameA), Symbol(":"), NotFunction,
                    Symbol("."), Ident(NameAB), Symbol(")"),
                    Symbol(":"), Ident(<<"h">>), Symbol(" "), Symbol("{")>>
                  \o Declaration("c", "r") \o <<Symbol("}")>>,
      pseudo |-> [n \in {NameA, NameAB} |->
                    IF n = NameA THEN <<(<<":", "h">>)>> ELSE <<>>]]}

File(path, content, inferredLayer) ==
    [path |-> path, readable |-> TRUE, content |-> content,
     inferredLayer |-> inferredLayer]

Unreadable(path) ==
    [path |-> path, readable |-> FALSE, content |-> <<>>, inferredLayer |-> <<>>]

\* .a { c: r; } .a__b { c: r; d: b; }
SheetElement ==
    Rule(NameA, Declaration("c", "r"))
    \o Rule(NameAElemB, Declaration("c", "r") \o Declaration("d", "b"))

\* .a--b { c: r; } .a__b { c: r; }
SheetOrphans ==
    Rule(NameAModB, Declaration("c", "r")) \o Rule(NameAElemB, Declaration("c", "r"))

\* three files that declare the class a
\* f1: .a { c: r; d: r; } .a:h { c: b; }
\* f2: .a { c: b; } .a:h { c: r; } .a:f { c: r; }
\* f3: .a { d: b; }
DuplicateFiles ==
    <<File("f1", Rule(NameA, Declaration("c", "r") \o Declaration("d", "r"))
                 \o PseudoRule(NameA, "h", Declaration("c", "b")), <<>>),
      File("f2", Rule(NameA, Declaration("c", "b"))
                 \o PseudoRule(NameA, "h", Declaration("c", "r"))
                 \o PseudoRule(NameA, "f", Declaration("c", "r")), <<>>),
      File("f3", Rule(NameA, Declaration("d", "b")), <<>>)>>

\* stylesheets that end inside a rule: the completed rules, then the rest
\* .a { c: r; } .a-b:h                 (ends before the {)
\* .a { c: r; } .a-b { c: b            (ends before the })
\* .a { c: r; } .a { c: b; d: r        (ends before the }, class declared before)
UnterminatedSheets ==
    {[complete |-> Rule(NameA, Declaration("c", "r")),
      rest |-> <<Symbol("."), Ident(NameAB), Symbol(":"), Ident(<<"h">>)>>],
     [complete |-> Rule(NameA, Declaration("c", "r")),
      rest |-> <<Symbol("."), Ident(NameAB), Symbol(" "), Symbol("{"),
                 Ident(<<"c">>), Symbol(":"), Symbol(" "), Ident(<<"b">>)>>],
     [complete |-> Rule(NameA, Declaration("c", "r")),
      rest |-> <<Symbol("."), Ident(NameA), Symbol(" "), Symbol("{")>>
               \o Declaration("c", "b")
               \o <<Ident(<<"d">>), Symbol(":"), Ident(<<"r">>)>>]}

\* the results of scanCSSFiles that are modelled
FileLists ==
    {<<File("f1", SheetCollision, <<>>)>>,
     <<File("f1", SheetSuffixClash, <<>>)>>,
     <<File("f1", SheetBEM, <<"u">>)>>,
     <<File("f1", SheetLayer, <<"u">>)>>,
     <<File("f1", SheetLayerClosed, <<"u">>)>>,
     <<File("f1", SheetCollision, <<>>), File("f2", SheetLayer, <<>>)>>,
     <<Unreadable("f1"), File("f2", SheetCollision, <<>>)>>}
    \cup {<<File("f1", SheetElement, <<>>)>>, <<File("f1", SheetOrphans, <<>>)>>,
          DuplicateFiles}
    \cup {<<File("f1", SheetElement, <<>>), Unreadable("f2"),
            File("f3", Rule(NameA, Declaration("d", "b")), <<>>)>>,
          <<File("f1", Rule(NameAB, Declaration("c", "r")), <<>>),
            File("f2", SheetCollision, <<>>)>>}
    \cup {<<File("f1", t.complete \o t.rest, <<>>)>> : t \in UnterminatedSheets}
    \cup {<<File("f1", t.before \o t.rule, <<>>)>> :
             t \in PseudoSheets \cup PseudoCompoundSheets}
    \cup {<<File("f1", t.content, <<>>)>> :
             t \in CompoundSheets \cup CommaSheets \cup FunctionalSheets}

-----------------------------------------------------------------------------
(* Generate pipeline: processFiles, AnalyzeClasses, mergeConflicts, filter *)

MaxRuns == 2        \* runs of the generator on the same files

\* the (Name, GoName) pairs of the records
GoNames(h) == {<<h[x].Name, h[x].GoName>> : x \in DOMAIN h}

InitGen ==
    /\ pc = "parse"
    /\ files \in FileLists
    /\ fileIdx = 1
    /\ heap = <<>>
    /\ allClasses = <<>>
    /\ warnings = <<>>
    /\ publicClasses = <<>>
    /\ run = 1
    /\ previous = {}
    /\ constants = <<>>
    /\ allCSSClasses = {}
    /\ lookup = NoLookup
    /\ cur = NoRef
    /\ curFrom = 0
    /\ actuallyUsed = {}
    /\ availableForMigration = {}
    /\ hardcodedStrings = <<>>
    /\ invalidClasses = <<>>
    /\ issues = <<>>
    /\ result = EmptyResult
    /\ generated = [pattern |-> "ok", parses |-> FALSE, constants |-> <<>>,
                    classes |-> {}]
    /\ exit = NotExited
    /\ source = <<>>
    /\ references = <<>>

\* a file that cannot be read is passed over without a warning
ParseFile_SilentOnFailure ==
    /\ pc = "parse"
    /\ fileIdx <= Len(files)
    /\ LET file == files[fileIdx]
       IN  IF ~file.readable
           THEN UNCHANGED <<warnings, heap, allClasses>>
           ELSE \E parsed \in ParseCSS(file.content, file.path, file.inferredLayer) :
                    /\ heap' = heap \o parsed
                    /\ allClasses' =
                          allClasses \o [k \in 1..Len(parsed) |-> Len(heap) + k]
                    /\ UNCHANGED warnings
    /\ fileIdx' = fileIdx + 1
    /\ UNCHANGED <<pc, files, publicClasses, run, previous, lintVars>>

\* processFiles: one iteration of the loop over files (parseFile, ParseCSS)
ParseFile ==
    /\ pc = "parse"
    /\ fileIdx <= Len(files)
    /\ LET file == files[fileIdx]
       IN  IF ~file.readable
           THEN /\ warnings' = Append(warnings, [FailedToParse |-> file.path])
                /\ UNCHANGED <<heap, allClasses>>
           ELSE \E parsed \in ParseCSS(file.content, file.path, file.inferredLayer) :
                    /\ heap' = heap \o parsed
                    /\ allClasses' =
                          allClasses \o [k \in 1..Len(parsed) |-> Len(heap) + k]
                    /\ UNCHANGED warnings
    /\ fileIdx' = fileIdx + 1
    /\ UNCHANGED <<pc, files, publicClasses, run, previous, lintVars>>

\* Generate step 3: AnalyzeClasses on all parsed records
Analyze ==
    /\ pc = "parse"
    /\ fileIdx > Len(files)
    /\ heap' = AnalyzeClasses(heap, allClasses)
    /\ pc' = "merge"
    /\ UNCHANGED <<files, fileIdx, allClasses, warnings, publicClasses, run, previous,
                   lintVars>>

\* Generate step 4: mergeConflicts
Merge ==
    /\ pc = "merge"
    /\ \E m \in mergeConflicts(heap, allClasses) :
          /\ heap' = m.heap
          /\ allClasses' = m.classes
          /\ warnings' = warnings \o m.warnings
    /\ pc' = "filter"
    /\ UNCHANGED <<files, fileIdx, publicClasses, run, previous, lintVars>>

\* Generate step 5: the internal classes are filtered out
Filter ==
    /\ pc = "filter"
    /\ publicClasses' = SelectSeq(allClasses, LAMBDA x : ~heap[x].IsInternal)
    /\ pc' = "write"
    /\ UNCHANGED <<files, fileIdx, heap, allClasses, warnings, run, previous, lintVars>>

\* the generator is run again on the same files
Rerun ==
    /\ pc = "write"
    /\ run < MaxRuns
    /\ previous' = GoNames(heap)
    /\ run' = run + 1
    /\ pc' = "parse"
    /\ fileIdx' = 1
    /\ heap' = <<>>
    /\ allClasses' = <<>>
    /\ warnings' = <<>>
    /\ publicClasses' = <<>>
    /\ UNCHANGED <<files, lintVars>>

NextGen == ParseFile \/ Analyze \/ Merge \/ Filter \/ Rerun

SpecGen == InitGen /\ [][NextGen]_vars

-----------------------------------------------------------------------------
(* Scanner: extractClassesFromLine and its patterns *)

MaxLines == 2       \* lines of the scanned file

UpperCase == {"A", "B", "C", "D", "E", "F", "G", "H", "I", "J", "K", "L", "M",
              "N", "O", "P", "Q", "R", "S", "T", "U", "V", "W", "X", "Y", "Z"}
AlphaNumeric ==
    UpperCase
    \cup {"a", "b", "c", "d", "e", "f", "g", "h", "i", "j", "k", "l", "m",
          "n", "o", "p", "q", "r", "s", "t", "u", "v", "w", "x", "y", "z"}
    \cup {"0", "1", "2", "3", "4", "5", "6", "7", "8", "9"}

\* the literal text of the patterns
UiDot == <<"u", "i", ".">>
ClassBrace == ClassAttr \o <<"{">>
TemplClassesCall ==
    <<"t", "e", "m", "p", "l", ".", "C", "l", "a", "s", "s", "e", "s", "(">>
TemplKVCall == <<"t", "e", "m", "p", "l", ".", "K", "V", "(">>
DsClassCall == <<"d", "s", ".", "C", "l", "a", "s", "s", "(">>

\* patterns: the literal text, whether \s* follows it, and what is captured: an
\* identifier ([A-Z][a-zA-Z0-9]*), a quoted string ("([^"]+)") or the text up
\* to the next closing parenthesis (([^)]+)\))
patterns ==
    <<[prefix |-> UiDot, spaces |-> FALSE, capture |-> "identifier", isConst |-> TRUE],
      [prefix |-> ClassAttr, spaces |-> FALSE, capture |-> "quoted", isConst |-> FALSE],
      [prefix |-> ClassBrace, spaces |-> TRUE, capture |-> "quoted", isConst |-> FALSE],
      [prefix |-> TemplClassesCall, spaces |-> TRUE, capture |-> "quoted",
       isConst |-> FALSE],
      [prefix |-> TemplKVCall, spaces |-> TRUE, capture |-> "quoted", isConst |-> FALSE],
      [prefix |-> DsClassCall, spaces |-> TRUE, capture |-> "quoted", isConst |-> FALSE]>>

templClassesMulti ==
    [prefix |-> TemplClassesCall, spaces |-> FALSE, capture |-> "arguments",
     isConst |-> FALSE]

templKVMulti ==
    [prefix |-> TemplKVCall, spaces |-> FALSE, capture |-> "arguments", isConst |-> FALSE]

\* commentPattern.MatchString: ^\s*//
commentPattern(line) == HasPrefix(TrimLeft(line), <<"/", "/">>)

\* a match of a pattern that starts at the 0-based offset i: the offsets of the
\* match (start, end) and of its capture group (from, to), or NoMatch
NoMatch == [start |-> -1, from |-> -1, to |-> -1, end |-> -1]

MatchAt(line, pattern, i) ==
    LET after == i + Len(pattern.prefix)
        nonSpace == {k \in after..Len(line) :
                        k = Len(line) \/ line[k + 1] \notin Whitespace}
        stops == {k \in (after + 1)..Len(line) :
                        k = Len(line) \/ line[k + 1] \notin AlphaNumeric}
        open == IF pattern.spaces THEN Min(nonSpace) ELSE after
        quotes == {k \in (open + 1)..(Len(line) - 1) : line[k + 1] = Quote}
        parens == {k \in after..(Len(line) - 1) : line[k + 1] = ")"}
    IN  IF ~OccursAt(line, pattern.prefix, i + 1) THEN NoMatch
        ELSE CASE pattern.capture = "identifier" ->
                    IF after < Len(line) /\ line[after + 1] \in UpperCase
                    THEN [start |-> i, from |-> after, to |-> Min(stops),
                          end |-> Min(stops)]
                    ELSE NoMatch
               [] pattern.capture = "quoted" ->
                    IF /\ open < Len(line)
                       /\ line[open + 1] = Quote
                       /\ quotes # {}
                       /\ Min(quotes) > open + 1
                    THEN [start |-> i, from |-> open + 1, to |-> Min(quotes),
                          end |-> Min(quotes) + 1]
                    ELSE NoMatch
               [] pattern.capture = "arguments" ->
                    IF parens # {} /\ Min(parens) > after
                    THEN [start |-> i, from |-> after, to |-> Min(parens),
                          end |-> Min(parens) + 1]
                    ELSE NoMatch

\* regex.FindAllStringSubmatchIndex(line, -1) is FindAllFrom(line, pattern, 0):
\* the leftmost matches, each search starting where the match before ended
RECURSIVE FindAllFrom(_, _, _)
FindAllFrom(line, pattern, i) ==
    IF i >= Len(line) THEN <<>>
    ELSE LET m == MatchAt(line, pattern, i)
         IN  IF m # NoMatch
             THEN <<m>> \o FindAllFrom(line, pattern, m.end)
             ELSE FindAllFrom(line, pattern, i + 1)

RECURSIVE Flatten(_)
Flatten(slices) ==
    IF slices = <<>> THEN <<>> ELSE Head(slices) \o Flatten(Tail(slices))

\* strings.HasSuffix
HasSuffix(s, suffix) ==
    /\ Len(suffix) <= Len(s)
    /\ \A k \in 1..Len(suffix) : s[Len(s) - Len(suffix) + k] = suffix[k]

\* strings.Trim(s, cutset) for a cutset of one character
RECURSIVE Trim(_, _)
Trim(s, c) ==
    IF s # <<>> /\ Head(s) = c THEN Trim(Tail(s), c)
    ELSE IF s # <<>> /\ s[Len(s)] = c THEN Trim(SubSeq(s, 1, Len(s) - 1), c)
    ELSE s

\* the constant name written by an identifier: the names of the registry are
\* one letter long, and so are the identifiers of the scanned lines
Name(identifier) == IF identifier = <<>> THEN "" ELSE identifier[1]

\* the ClassReference of a captured identifier or class string
ClassReference(isConst, captured, lineNum, column, fullLine) ==
    [IsConstant |-> isConst,
     ConstName |-> IF isConst THEN Name(captured) ELSE "",
     FullClassValue |-> IF isConst THEN <<>> ELSE captured,
     Location |-> [Line |-> lineNum, Column |-> column, Text |-> TrimSpace(fullLine)]]

\* splitTemplArgs: split at the commas outside parentheses
splitTemplArgs(s) ==
    LET F[i \in 0..Len(s)] ==
            IF i = 0 THEN [parts |-> <<>>, current |-> <<>>, parenDepth |-> 0]
            ELSE LET st == F[i - 1]
                     r == s[i]
                 IN  CASE r = "(" ->
                            [st EXCEPT !.parenDepth = @ + 1, !.current = Append(@, r)]
                       [] r = ")" ->
                            [st EXCEPT !.parenDepth = @ - 1, !.current = Append(@, r)]
                       [] r = "," ->
                            IF st.parenDepth = 0
                            THEN [st EXCEPT !.parts = Append(@, st.current),
                                            !.current = <<>>]
                            ELSE [st EXCEPT !.current = Append(@, r)]
                       [] OTHER -> [st EXCEPT !.current = Append(@, r)]
        end == F[Len(s)]
    IN  IF Len(end.current) > 0 THEN Append(end.parts, end.current) ELSE end.parts

\* parseTemplArguments: a reference for every argument that is a ui constant
\* or a string literal
parseTemplArguments(args, lineNum, fullLine) ==
    LET parts == splitTemplArgs(args)
        RefsOf(untrimmed) ==
            LET part == TrimSpace(untrimmed)
                classStr == Trim(part, Quote)
            IN  IF HasPrefix(part, UiDot)
                THEN <<ClassReference(TRUE, TrimPrefix(part, UiDot), lineNum,
                                      Index(fullLine, part) + 1, fullLine)>>
                ELSE IF HasPrefix(part, <<Quote>>) /\ HasSuffix(part, <<Quote>>)
                THEN <<ClassReference(FALSE, classStr, lineNum,
                                      Index(fullLine, classStr) + 1, fullLine)>>
                ELSE <<>>
    IN  Flatten([k \in 1..Len(parts) |-> RefsOf(parts[k])])

\* extractFromTemplClasses: every argument of every templ.Classes(...) call
extractFromTemplClasses(line, lineNum) ==
    LET matches == FindAllFrom(line, templClassesMulti, 0)
    IN  Flatten([k \in 1..Len(matches) |->
            parseTemplArguments(SubSeq(line, matches[k].from + 1, matches[k].to),
                                lineNum, line)])

\* extractFromTemplKV: the first argument of every templ.KV(...) call
extractFromTemplKV(line, lineNum) ==
    LET matches == FindAllFrom(line, templKVMulti, 0)
        RefsOf(m) ==
            LET parts == splitTemplArgs(SubSeq(line, m.from + 1, m.to))
            IN  IF Len(parts) > 0
                THEN parseTemplArguments(parts[1], lineNum, line)
                ELSE <<>>
    IN  Flatten([k \in 1..Len(matches) |-> RefsOf(matches[k])])

\* the standard pattern matching: the matches of every pattern, pattern by pattern
StandardMatches(line, lineNum) ==
    LET RefsOf(pattern) ==
            LET matches == FindAllFrom(line, pattern, 0)
            IN  [k \in 1..Len(matches) |->
                    ClassReference(pattern.isConst,
                                   SubSeq(line, matches[k].from + 1, matches[k].to),
                                   lineNum, matches[k].start + 1, line)]
    IN  Flatten([p \in 1..Len(patterns) |-> RefsOf(patterns[p])])

\* extractClassesFromLine
extractClassesFromLine(line, lineNum) ==
    LET hasTemplClasses == Contains(line, TemplClassesCall)
        hasTemplKV == Contains(line, TemplKVCall)
    IN  IF commentPattern(line) THEN <<>>
        ELSE IF hasTemplClasses \/ hasTemplKV
        THEN (IF hasTemplClasses THEN extractFromTemplClasses(line, lineNum) ELSE <<>>)
             \o (IF hasTemplKV THEN extractFromTemplKV(line, lineNum) ELSE <<>>)
        ELSE StandardMatches(line, lineNum)

\* scanFile: the references of every line, lines numbered from 1
scanFile(lines) ==
    Flatten([n \in 1..Len(lines) |-> extractClassesFromLine(lines[n], n)])

-----------------------------------------------------------------------------
(* Scanned lines *)

TokAZ == <<"a", "z">>

\* class={ arguments }
BraceAttr(arguments) == ClassBrace \o <<" ">> \o arguments \o <<" ", "}">>

\* call("class", condition)
Call(call, class, rest) == call \o <<Quote>> \o class \o <<Quote>> \o rest \o <<")">>

\* the lines of templ files: class attributes (one indented, one whose second
\* class is contained in its first), constants, the templ helpers alone and
\* next to a constant, a comment, a ds.Class call
LinePool ==
    {LineOf(TokA),
     LineOf(Join(<<TokZ, TokZ>>, <<" ">>)),
     <<" ", " ">> \o LineOf(TokZ),
     LineOf(Join(<<TokAZ, TokZ>>, <<" ">>)),
     BraceAttr(UiDot \o <<"A">>),
     BraceAttr(UiDot \o <<"A", ",", " ">> \o Call(TemplKVCall, TokZ, <<",", " ", "c">>)),
     BraceAttr(Call(TemplClassesCall, TokA, <<",", " ">> \o UiDot \o <<"B">>)),
     BraceAttr(<<Quote>> \o TokA \o <<Quote>>),
     <<"/", "/", " ">> \o LineOf(TokZ),
     Call(DsClassCall, TokZ, <<>>)}

RECURSIVE SeqsUpTo(_, _)
SeqsUpTo(S, n) ==
    IF n = 0 THEN {<<>>}
    ELSE LET shorter == SeqsUpTo(S, n - 1)
         IN  shorter \cup {Append(q, x) : q \in shorter, x \in S}

\* the scanned file
SourceFiles == SeqsUpTo(LinePool, MaxLines)

-----------------------------------------------------------------------------
(* The lint command: Lint on a scanned file, the limits, the exit code *)

\* the registries of the command's runs: one whose single constant can be
\* fully used, one with a public and an internal class
CmdGeneratedFiles ==
    {[pattern |-> "ok", parses |-> TRUE, constants |-> [n \in {"A"} |-> TokA],
      classes |-> {TokA}],
     [pattern |-> "ok", parses |-> TRUE,
      constants |-> [n \in ConstNames |-> IF n = "A" THEN TokA ELSE TokInternal],
      classes |-> {TokA, TokInternal}]}

InitCmd ==
    /\ LintInit
    /\ generated \in CmdGeneratedFiles
    /\ source \in SourceFiles

BuildLookupCmd == BuildLookupThen("scan")

\* Lint steps 3 and 4: ScanFiles
ScanFiles ==
    /\ pc = "scan"
    /\ references' = scanFile(source)
    /\ pc' = "analyze"
    /\ UNCHANGED <<constants, allCSSClasses, lookup, cur, curFrom, actuallyUsed,
                   availableForMigration, hardcodedStrings, invalidClasses, issues,
                   result, generated, exit, source>>
    /\ UNCHANGED genVars

\* one iteration of analyzeUsage's loop over the scanned references
AnalyzeNext ==
    /\ pc = "analyze"
    /\ result.ConstantsFound + result.ClassesFound < Len(references)
    /\ LET ref == references[result.ConstantsFound + result.ClassesFound + 1]
       IN  /\ cur' = ref
           /\ curFrom' = Len(issues)
           /\ IF ref.IsConstant THEN AnalyzeConstantRef(ref) ELSE AnalyzeStringRef(ref)
    /\ UNCHANGED <<pc, constants, allCSSClasses, lookup, generated, exit, source,
                   references>>
    /\ UNCHANGED genVars

\* the statistics, once the loop has handled every reference
SummarizeScanned ==
    /\ result.ConstantsFound + result.ClassesFound = Len(references)
    /\ Summarize

NextCmd ==
    \/ ParseGeneratedFile
    \/ BuildLookupCmd
    \/ ScanFiles
    \/ AnalyzeNext
    \/ SummarizeScanned
    \/ LimitIssues
    \/ Exit

SpecCmd == InitCmd /\ [][NextCmd]_vars

-----------------------------------------------------------------------------
(* Properties of the resolution engine *)

\* the issues appended by the last loop iteration
CurIssues == SubSeq(issues, curFrom + 1, Len(issues))

\* the last iteration analysed a hardcoded class string
CurIsString == pc \in {"analyze", "analyzed"} /\ ~cur.IsConstant

CurTokens == Fields(cur.FullClassValue)

CurIsExactKey == cur.FullClassValue \in DOMAIN lookup.ExactMap

Occurrences(seq, x) == Cardinality({i \in 1..Len(seq) : seq[i] = x})

ErrorsNaming(seq, t) ==
    Cardinality({i \in 1..Len(seq) :
        seq[i].Severity = SeverityError /\ seq[i].Text = InvalidClassText(t)})

WarningCount(seq) ==
    Cardinality({i \in 1..Len(seq) : seq[i].Severity = SeverityWarning})

IsZombieToken(t) == t \notin lookup.AllCSSClasses

\* every zombie token of the last class string has one error issue per occurrence
ZombiesReported ==
    \A t \in Range(CurTokens) :
        IsZombieToken(t) => ErrorsNaming(CurIssues, t) = Occurrences(CurTokens, t)

\* ErrorCount and InvalidClasses follow the error issues one to one
ErrorsCounted ==
    LET errs == SelectSeq(issues, LAMBDA is : is.Severity = SeverityError)
    IN  /\ result.ErrorCount = Len(errs)
        /\ Len(invalidClasses) = Len(errs)
        /\ \A k \in 1..Len(errs) : errs[k].Text = InvalidClassText(invalidClasses[k].ClassName)

\* C1 (as stated): for every lookup and every hardcoded reference, each token
\* that is not in AllCSSClasses gets exactly one error issue per occurrence, and
\* ErrorCount and InvalidClasses grow with it.
C1_ZombieAlwaysReported ==
    CurIsString => ZombiesReported /\ ErrorsCounted

\* C1 (amended): the same, for every hardcoded reference whose whole class
\* string is not itself a key of ExactMap; a whole-string match skips the
\* per-token analysis and reports nothing.
C1_ZombieReportedUnlessExactKey ==
    /\ ErrorsCounted
    /\ CurIsString /\ ~CurIsExactKey => ZombiesReported
    /\ CurIsString /\ CurIsExactKey => ErrorsNaming(CurIssues, cur.FullClassValue) = 0
                                       /\ Len(CurIssues) <= 1

C1_Witness ==
    /\ CurIsString /\ ~CurIsExactKey
    /\ \E t \in Range(CurTokens) : IsZombieToken(t) /\ Occurrences(CurTokens, t) = 2
    /\ result.ErrorCount >= 2

\* C2: classifyClass is Zombie exactly for a class outside AllCSSClasses, Matched
\* exactly for a known class with an ExactMap entry, Bypassed exactly for a known
\* class without one; a known `_` class without constant is Bypassed.
C2_ClassifyClass ==
    pc \in {"analyze", "analyzed"} =>
        \A t \in TokenPool \cup ValuePool :
            /\ classifyClass(t, lookup) = ClassZombie <=> t \notin lookup.AllCSSClasses
            /\ classifyClass(t, lookup) = ClassMatched <=>
                    (t \in lookup.AllCSSClasses /\ t \in DOMAIN lookup.ExactMap)
            /\ classifyClass(t, lookup) = ClassBypassed <=>
                    (t \in lookup.AllCSSClasses /\ t \notin DOMAIN lookup.ExactMap)
            /\ (HasPrefix(t, <<"_">>) /\ t \in lookup.AllCSSClasses
                    /\ t \notin DOMAIN lookup.ExactMap)
                => classifyClass(t, lookup) = ClassBypassed

C2_Witness ==
    /\ CurIsString
    /\ TokInternal \in Range(CurTokens)
    /\ TokInternal \in lookup.AllCSSClasses
    /\ TokInternal \notin DOMAIN lookup.ExactMap
    /\ TokA \in DOMAIN lookup.ExactMap /\ TokA \in lookup.AllCSSClasses
    /\ TokZ \notin lookup.AllCSSClasses

HasZombieToken == \E t \in Range(CurTokens) : IsZombieToken(t)

HasInternalToken == \E t \in Range(CurTokens) : HasPrefix(t, <<"_">>)

\* the constants the last class string resolves to: the whole-string constant,
\* else the constants of its known tokens
ResolvesToConstant ==
    \/ CurIsExactKey
    \/ \E t \in Range(CurTokens) : ~IsZombieToken(t) /\ t \in DOMAIN lookup.ExactMap

\* C3 (as stated): a hardcoded reference gets exactly one warning iff its string
\* resolves to a constant, has no zombie token and no `_` token; no warning otherwise.
C3_WarningIffCleanMatch ==
    CurIsString =>
        WarningCount(CurIssues) =
            IF ResolvesToConstant /\ ~HasZombieToken /\ ~HasInternalToken THEN 1 ELSE 0

\* C3 (amended): zombie tokens suppress the warning only when the per-token
\* analysis runs; a string that is itself an ExactMap key gets its warning even
\* if a token of it is not in AllCSSClasses.
C3_WarningIffCleanMatchOrExactKey ==
    CurIsString =>
        WarningCount(CurIssues) =
            IF /\ ResolvesToConstant
               /\ (CurIsExactKey \/ ~HasZombieToken)
               /\ ~HasInternalToken
            THEN 1 ELSE 0

C3_Witness ==
    /\ CurIsString /\ ~CurIsExactKey
    /\ HasZombieToken /\ ~HasInternalToken
    /\ \E t \in Range(CurTokens) : ~IsZombieToken(t) /\ t \in DOMAIN lookup.ExactMap
    /\ WarningCount(CurIssues) = 0
    /\ WarningCount(issues) = 1

\* C4 (as stated): a `_` token suppresses the warning of its string and never an
\* error: every zombie token of that string still has its error issue.
C4_InternalSuppressesWarningOnly ==
    CurIsString /\ HasInternalToken =>
        /\ WarningCount(CurIssues) = 0
        /\ \A t \in Range(CurTokens) : IsZombieToken(t) => ErrorsNaming(CurIssues, t) >= 1

\* C4 (amended): the same, with the errors of a string that is not itself an
\* ExactMap key: such a key is never analysed per token.
C4_InternalSuppressesWarningOnlyUnlessExactKey ==
    CurIsString /\ HasInternalToken =>
        /\ WarningCount(CurIssues) = 0
        /\ ~CurIsExactKey =>
              \A t \in Range(CurTokens) : IsZombieToken(t) => ErrorsNaming(CurIssues, t) >= 1

C4_Witness ==
    /\ CurIsString /\ ~CurIsExactKey
    /\ HasInternalToken /\ HasZombieToken
    /\ Len(CurIssues) = 1
    /\ \E i \in 1..Len(hardcodedStrings) :
          /\ hasInternalClasses(hardcodedStrings[i].FullClassValue)
          /\ ~hardcodedStrings[i].Suggestion.HasInvalid

\* the ExactMap identifiers of the Matched tokens, in token order
MatchedConstants(tokens, lk) ==
    LET matched == SelectSeq(tokens, LAMBDA t : t \in lk.AllCSSClasses /\ t \in DOMAIN lk.ExactMap)
    IN  [i \in 1..Len(matched) |-> lk.ExactMap[matched[i]]]

ResolvedAsSpecified(s, sug) ==
    IF s \in DOMAIN lookup.ExactMap
    THEN sug.Constants = <<lookup.ExactMap[s]>> /\ sug.Analysis = <<>>
    ELSE /\ sug.Constants = MatchedConstants(Fields(s), lookup)
         /\ Len(sug.Analysis) = Len(Fields(s))

C6_UnmatchedHoldsZombieAndBypassed ==
    CurIsString /\ ~CurIsExactKey =>
        LET sug == ResolveBestConstants(cur.FullClassValue, lookup)
        IN  /\ \A t \in Range(CurTokens) :
                  classifyClass(t, lookup) \in {ClassZombie, ClassBypassed}
                      => t \in Range(sug.UnmatchedClasses)
            /\ sug.HasUnmatched <=>
                  \E t \in Range(CurTokens) : classifyClass(t, lookup) # ClassMatched
            /\ \A i \in 1..Len(hardcodedStrings) :
                  hardcodedStrings[i].FullClassValue = cur.FullClassValue
                      => hardcodedStrings[i].Suggestion = sug

\* C10 (as stated): the three statistics partition the registry
C10_StatisticsPartitionRegistry ==
    pc = "analyzed" =>
        LET registry == DOMAIN constants
        IN  /\ result.ActuallyUsed = Cardinality(registry \cap actuallyUsed)
            /\ result.AvailableForMigration =
                    Cardinality((registry \cap availableForMigration) \ actuallyUsed)
            /\ result.CompletelyUnused =
                    Cardinality(registry \ (actuallyUsed \cup availableForMigration))
            /\ result.ActuallyUsed \in 0..result.TotalConstants
            /\ result.AvailableForMigration \in 0..result.TotalConstants
            /\ result.CompletelyUnused \in 0..result.TotalConstants
            /\ result.ActuallyUsed + result.AvailableForMigration
                    + result.CompletelyUnused = result.TotalConstants

-----------------------------------------------------------------------------
(* Properties of the analyzer *)

\* the state right after AnalyzeClasses
AfterAnalyze == pc = "merge"

Record(p) == heap[allClasses[p]]

\* the records of the analysed slice have pairwise distinct class names
DistinctNames ==
    \A p, q \in 1..Len(allClasses) : Record(p).Name = Record(q).Name => p = q

\* C7: after AnalyzeClasses on records with pairwise distinct class names, all
\* GoName values are pairwise distinct
C7_GoNamesPairwiseDistinct ==
    (AfterAnalyze /\ DistinctNames) =>
        \A p, q \in 1..Len(allClasses) : Record(p).GoName = Record(q).GoName => p = q

\* C8: ParseCSS followed by AnalyzeClasses on the same stylesheet assigns, in a
\* second run, the same GoName to every class name as in the first run
C8_SameGoNamesInBothRuns ==
    (AfterAnalyze /\ Len(files) = 1 /\ run > 1) => GoNames(heap) = previous

\* the number of records up to position p of the slice whose toGoName result
\* is that of the record at p
Rank(p) ==
    Cardinality({q \in 1..p : toGoName(Record(q).Name) = toGoName(Record(p).Name)})

\* C9: among the records whose toGoName result is the same identifier G, the
\* first in the input slice keeps G and the k-th (k >= 2) has G followed by
\* the number k
C9_CollisionsInEncounterOrder ==
    AfterAnalyze =>
        \A p \in 1..Len(allClasses) :
            Record(p).GoName =
                IF Rank(p) = 1 THEN toGoName(Record(p).Name)
                ELSE toGoName(Record(p).Name) \o Decimal(Rank(p))

\* AnalyzeClasses has resolved a group of three records
C9_Witness ==
    /\ AfterAnalyze
    /\ \E p \in 1..Len(allClasses) :
          /\ Rank(p) = 3
          /\ Record(p).GoName = <<"A", "B", "3">>

-----------------------------------------------------------------------------
(* Properties of Lint's use of the generated registry *)

\* C11: when the generated registry file cannot be read or parsed, Lint
\* returns an error and never goes on to resolve references
C11_UnparsedRegistryFailsLint ==
    ~generated.parses => pc \in {"parseGenerated", "failed"}

-----------------------------------------------------------------------------
(* Properties of the parser *)

\* ParseCSS has returned for the only file of the run
ParsedOneFile == pc = "parse" /\ Len(files) = 1 /\ fileIdx = 2

\* C12: when the stylesheet ends inside a rule, the classes are exactly those
\* of the rules completed before it, unchanged
C12_UnterminatedRuleLeavesNoTrace ==
    \A t \in UnterminatedSheets :
        (ParsedOneFile /\ files[1].content = t.complete \o t.rest) =>
            Range(heap) = Range(ParsedClasses(t.complete, files[1].path,
                                              files[1].inferredLayer))

\* C13: a class's Layer is the name of the @layer block that encloses its
\* first declaration, and the caller's inferred layer (possibly empty) when
\* no block encloses it, also after an earlier @layer block has closed
C13_LayerIsEnclosingBlock ==
    \A t \in LayerSheets :
        (ParsedOneFile /\ files[1].content = t.content) =>
            \A x \in DOMAIN heap :
                heap[x].Layer = IF t.enclosing[heap[x].Name] # <<>>
                                THEN t.enclosing[heap[x].Name]
                                ELSE files[1].inferredLayer

\* the class a as it is before the last rule of pseudo sheet t
BaseBefore(t) ==
    LET before == ParsedClasses(t.before, files[1].path, files[1].inferredLayer)
    IN  IF NameA \in DOMAIN before THEN before[NameA]
        ELSE NewClass(NameA, files[1].inferredLayer, files[1].path)

\* the declarations of the block of t that are absent from, or differ from,
\* the base properties
Delta(t) ==
    LET base == BaseBefore(t).Properties
    IN  [q \in {q \in DOMAIN t.block : q \notin DOMAIN base \/ base[q] # t.block[q]} |->
            t.block[q]]

\* the file of pseudo sheet t has been parsed
ParsedPseudoSheet(t) == ParsedOneFile /\ files[1].content = t.before \o t.rule

\* the record of class a after the rule: base properties unchanged, :h in
\* PseudoStates once, and the deltas `recorded` appended
PseudoRuleEffect(t, recorded) ==
    \E x \in DOMAIN heap :
        /\ heap[x].Name = NameA
        /\ heap[x].Properties = BaseBefore(t).Properties
        /\ heap[x].PseudoStates =
              IF contains(BaseBefore(t).PseudoStates, <<":", "h">>)
              THEN BaseBefore(t).PseudoStates
              ELSE Append(BaseBefore(t).PseudoStates, <<":", "h">>)
        /\ heap[x].PseudoStateProperties =
              BaseBefore(t).PseudoStateProperties \o recorded

\* C14 as stated: a rule .a:h { ... } leaves the base properties unchanged,
\* adds :h to PseudoStates without duplicates, and records a delta for :h that
\* holds exactly the differing declarations
C14_PseudoRuleRecordsDelta ==
    \A t \in PseudoSheets :
        ParsedPseudoSheet(t) =>
            PseudoRuleEffect(t, <<[PseudoState |-> <<":", "h">>, Changes |-> Delta(t)]>>)

\* C14, amended: as above, but the delta is recorded only when at least one
\* declaration differs; otherwise no delta is recorded
C14_PseudoRuleRecordsNonEmptyDelta ==
    \A t \in PseudoSheets :
        ParsedPseudoSheet(t) =>
            PseudoRuleEffect(t,
                IF DOMAIN Delta(t) = {} THEN <<>>
                ELSE <<[PseudoState |-> <<":", "h">>, Changes |-> Delta(t)]>>)

\* a pseudo rule with one differing and one equal declaration has been parsed
C14_Witness ==
    \E t \in PseudoSheets :
        /\ ParsedPseudoSheet(t)
        /\ DOMAIN Delta(t) = {<<"c">>}
        /\ DOMAIN t.block = {<<"c">>, <<"d">>}
        /\ \E x \in DOMAIN heap : Len(heap[x].PseudoStateProperties) = 1

\* the file with this content has been parsed
ParsedSheet(content) == ParsedOneFile /\ files[1].content = content

\* the records of the class named n
RecordsNamed(n) == {x \in DOMAIN heap : heap[x].Name = n}

\* C15: a compound selector without pseudo-classes yields one record per class
\* of the compound, and each record's Properties holds every declaration of
\* the block
C15_CompoundAppliesToEveryClass ==
    \A t \in CompoundSheets :
        ParsedSheet(t.content) =>
            \A n \in t.classes :
                /\ Cardinality(RecordsNamed(n)) = 1
                /\ \A x \in RecordsNamed(n) :
                      \A q \in DOMAIN t.block :
                          /\ q \in DOMAIN heap[x].Properties
                          /\ heap[x].Properties[q] = t.block[q]

\* a compound of three classes has been parsed, one of them declared before
C15_Witness ==
    \E t \in CompoundSheets :
        /\ ParsedSheet(t.content)
        /\ Cardinality(t.classes) = 3
        /\ Len(heap) = 3

\* C16: the block after a selector list is applied to every class of the list,
\* also when a branch has no class, and no later rule's declarations are
\* applied to the classes of the list
C16_ListBlockAppliesToListOnly ==
    \A t \in CommaSheets :
        ParsedSheet(t.content) =>
            \A n \in DOMAIN t.declared :
                \E x \in DOMAIN heap :
                    heap[x].Name = n /\ heap[x].Properties = t.declared[n]

\* C17: a class inside :not( ... ) yields its own record without pseudo-state;
\* a pseudo-class after the closing parenthesis is recorded on the class
\* outside the parentheses
C17_FunctionalPseudoClasses ==
    \A t \in FunctionalSheets :
        ParsedSheet(t.content) =>
            \A n \in DOMAIN t.pseudo :
                \E x \in DOMAIN heap :
                    heap[x].Name = n /\ heap[x].PseudoStates = t.pseudo[n]

-----------------------------------------------------------------------------
(* Properties of the lineage analysis and of the merge *)

\* the text of name before its first occurrence of sep
BeforeFirst(name, sep) ==
    LET k == Min({i \in 1..Len(name) : OccursAt(name, sep, i)})
    IN  SubSeq(name, 1, k - 1)

HasSeparator(name, sep) == \E i \in 1..Len(name) : OccursAt(name, sep, i)

\* the base named by a class name: the text before the first --, otherwise
\* before the first __
BaseOf(name) ==
    IF HasSeparator(name, <<"-", "-">>) THEN BeforeFirst(name, <<"-", "-">>)
    ELSE BeforeFirst(name, <<"_", "_">>)

\* C18: after AnalyzeClasses, a record named base--rest (otherwise base__rest)
\* has as ParentClass an input record named base when there is one and no
\* parent otherwise; a name with neither separator has no parent and is
\* marked IsUtility
C18_ParentIsBaseRecord ==
    AfterAnalyze =>
        \A p \in 1..Len(allClasses) :
            LET class == Record(p)
                named == {q \in 1..Len(allClasses) : Record(q).Name = BaseOf(class.Name)}
            IN  IF HasSeparator(class.Name, <<"-", "-">>)
                   \/ HasSeparator(class.Name, <<"_", "_">>)
                THEN IF named # {}
                     THEN \E q \in named : class.ParentClass = allClasses[q]
                     ELSE class.ParentClass = 0
                ELSE class.ParentClass = 0 /\ class.IsUtility

\* the analysed slice holds an element linked to its base, and a modifier
\* and an element without base record are reached in other runs
C18_Witness ==
    /\ AfterAnalyze
    /\ \E p, q \in 1..Len(allClasses) :
          /\ Record(p).Name = NameAElemB
          /\ Record(q).Name = NameA
          /\ Record(p).ParentClass = allClasses[q]
          /\ Record(q).IsUtility

\* the positions of the input slice that hold a record named n, in slice order
Occurrences19(n) ==
    SelectSeq([p \in 1..Len(allClasses) |-> allClasses[p]], LAMBDA x : heap[x].Name = n)

\* the value of key q in the last of the records occ that has the key
LastValue(occ, q) ==
    heap[occ[Max({j \in 1..Len(occ) : q \in DOMAIN heap[occ[j]].Properties})]].Properties[q]

\* what mergeConflicts returns for the input slice allClasses
MergedAsSpecified ==
    LET names == {heap[allClasses[p]].Name : p \in 1..Len(allClasses)}
        added == SubSeq(warnings', Len(warnings) + 1, Len(warnings'))
    IN  /\ Len(allClasses') = Cardinality(names)
        /\ \A n \in names :
              \E k \in 1..Len(allClasses') :
                 LET merged == heap'[allClasses'[k]]
                     occ == Occurrences19(n)
                     keys == UNION {DOMAIN heap[occ[j]].Properties : j \in 1..Len(occ)}
                     states == UNION {Range(heap[occ[j]].PseudoStates) : j \in 1..Len(occ)}
                 IN  /\ merged.Name = n
                     /\ merged.Properties = [q \in keys |-> LastValue(occ, q)]
                     /\ Range(merged.PseudoStates) = states
                     /\ Len(merged.PseudoStates) = Cardinality(states)
                     /\ \A j \in 2..Len(occ) :
                           \E w \in 1..Len(added) :
                              added[w] = [Duplicate |-> n,
                                          In |-> heap[occ[1]].SourceFile,
                                          And |-> heap[occ[j]].SourceFile]
        /\ Len(added) = Len(allClasses) - Cardinality(names)

\* C19: mergeConflicts returns one record per distinct class name, with the
\* union of the properties (the later input wins per key), the duplicate-free
\* union of the pseudo-states, and one warning naming both source files for
\* each duplicate occurrence after the first
C19_MergeConflicts == [][Merge => MergedAsSpecified]_vars

\* three records of one class have been merged with two warnings
C19_Witness ==
    /\ pc = "filter"
    /\ files = DuplicateFiles
    /\ Len(allClasses) = 1
    /\ Len(warnings) = 2
    /\ Len(heap[allClasses[1]].PseudoStates) = 2

-----------------------------------------------------------------------------
(* Properties of the lookup *)

\* buildLookupMaps has returned
LookupBuilt == pc \in {"analyze", "analyzed"}

\* ExactMap maps the class string of every registry entry back to the entry
ExactMapOfEveryEntry ==
    \A id \in DOMAIN constants :
        /\ constants[id] \in DOMAIN lookup.ExactMap
        /\ lookup.ExactMap[constants[id]] = id

\* ConstantParts holds the one class string of every entry, and every ExactMap
\* entry comes from the registry
PartsAndConverse ==
    /\ DOMAIN lookup.ConstantParts = DOMAIN constants
    /\ \A id \in DOMAIN constants : lookup.ConstantParts[id] = <<constants[id]>>
    /\ \A c \in DOMAIN lookup.ExactMap :
          /\ lookup.ExactMap[c] \in DOMAIN constants
          /\ constants[lookup.ExactMap[c]] = c

\* C20 as stated: for every registry entry id -> class string,
\* ExactMap[class string] = id and ConstantParts[id] = [class string];
\* conversely ExactMap[c] = id implies the registry maps id to c
C20_LookupIsOneToOne ==
    LookupBuilt => (ExactMapOfEveryEntry /\ PartsAndConverse)

\* no two registry entries have the same class string
DistinctValues ==
    \A id1, id2 \in DOMAIN constants : constants[id1] = constants[id2] => id1 = id2

\* C20, amended: ConstantParts and the converse hold for every registry;
\* ExactMap[class string] = id holds for every entry when the class strings of
\* the registry are pairwise distinct
C20_LookupIsOneToOneOnDistinctValues ==
    LookupBuilt => (PartsAndConverse /\ (DistinctValues => ExactMapOfEveryEntry))

\* the lookup of a registry with two entries, one of them with two words
C20_Witness ==
    /\ LookupBuilt
    /\ DistinctValues
    /\ Cardinality(DOMAIN constants) = 2
    /\ \E id \in DOMAIN constants : Len(Fields(constants[id])) = 2

-----------------------------------------------------------------------------
(* Properties of the Generate pipeline *)

\* processFiles is running or has returned: the files before fileIdx are done
InProcessFiles == pc = "parse"

\* position of the file with this path in the file list
FileIndex(path) == CHOOSE i \in 1..Len(files) : files[i].path = path

\* the files handled so far that could not be read, in file-list order
FailedSoFar ==
    SelectSeq(SubSeq(files, 1, fileIdx - 1), LAMBDA f : ~f.readable)

-----------------------------------------------------------------------------
(* Properties of the exit code *)

Exited == pc = "exited"

\* an invalid-class error was found by the analysis
ErrorFound == \E i \in 1..Len(issues) : issues[i].Severity = SeverityError

BelowThreshold(flags) ==
    flags.threshold > 0 /\ result.UsagePercentage < flags.threshold

\* C22: the exit code is 1 exactly when, without -strict, an invalid-class
\* error was found and, with -strict, an issue of any severity was found or
\* the usage percentage is below a positive threshold
C22_ExitCode ==
    Exited =>
        (exit.code = 1 <=>
            IF exit.strict
            THEN Len(issues) > 0 \/ BelowThreshold(exit)
            ELSE ErrorFound)

\* the exit code the same entry point computes from the same result and flags
\* with -quiet switched
CodeWithQuietSwitched ==
    LET flags == [exit EXCEPT !.quiet = ~exit.quiet]
    IN  IF exit.entry = "main"
        THEN mainExitCode(result, flags)
        ELSE runLintExitCode(result, flags)

\* C29: with the same lint result and the same other flags the exit code is
\* the same with and without -quiet
C29_ExitCodeIndependentOfQuiet ==
    Exited => exit.code = CodeWithQuietSwitched


-----------------------------------------------------------------------------
(* Properties of limitIssues *)

Limited == pc = "limited"

RECURSIVE IsSubsequence(_, _)
IsSubsequence(a, b) ==
    IF a = <<>> THEN TRUE
    ELSE IF b = <<>> THEN FALSE
    ELSE IF Head(a) = Head(b) THEN IsSubsequence(Tail(a), Tail(b))
    ELSE IsSubsequence(a, Tail(b))

TimesOf(text, list) == Cardinality({i \in 1..Len(list) : list[i].Text = text})

\* C30: limitIssues, given the issues of the analysis and the limits of the
\* run, returns a subsequence of them in their order, of at most
\* MaxIssuesPerLinter issues when that limit is positive, with no message text
\* more than MaxSameIssues times when that limit is positive, together with the
\* number of issues removed; the subsequence is empty only if no issue was
\* given.  Lint stores both in the result when a limit is set.
C30_LimitIssues ==
    Limited =>
        LET limited == limitIssues(issues, exit)
            out == limited.issues
        IN  /\ IsSubsequence(out, issues)
            /\ exit.MaxIssuesPerLinter > 0 => Len(out) <= exit.MaxIssuesPerLinter
            /\ exit.MaxSameIssues > 0 =>
                    \A i \in 1..Len(out) : TimesOf(out[i].Text, out) <= exit.MaxSameIssues
            /\ limited.truncatedCount = Len(issues) - Len(out)
            /\ out = <<>> => issues = <<>>
            /\ (exit.MaxIssuesPerLinter > 0 \/ exit.MaxSameIssues > 0) =>
                    /\ result.Issues = out
                    /\ result.TruncatedCount = limited.truncatedCount

\* both limits are set and each of them removes an issue
C30_Witness ==
    /\ Limited
    /\ exit.MaxIssuesPerLinter > 0
    /\ exit.MaxSameIssues > 0
    /\ Len(issues) > exit.MaxIssuesPerLinter
    /\ result.TruncatedCount > Len(issues) - exit.MaxIssuesPerLinter
    /\ Len(result.Issues) > 0


-----------------------------------------------------------------------------
(* Properties of the issue column and of the scanner *)

\* the characters around a class name in a class string
ClassDelimiters == Whitespace \cup {Quote, "'"}

\* the 1-based columns of line at which the class token t begins: t is written
\* there, with a delimiter or an end of the line on either side
TokenStarts(line, t) ==
    {p \in 1..Len(line) :
        /\ OccursAt(line, t, p)
        /\ p = 1 \/ line[p - 1] \in ClassDelimiters
        /\ p + Len(t) > Len(line) \/ line[p + Len(t)] \in ClassDelimiters}

\* the last iteration of the loop handled a class string
HandledClassString == cur # NoRef /\ ~cur.IsConstant

\* the issues of the last iteration
IssuesOfCur == {issues[i] : i \in (curFrom + 1)..Len(issues)}

\* C23: the column of an invalid-class error is a column of the line, as it is
\* in the scanned file, at which that class token begins; it is the column of
\* the reference only when the token is nowhere in the line
C23_ErrorColumnInSourceLine ==
    HandledClassString =>
        \A issue \in IssuesOfCur :
            issue.Severity = SeverityError =>
                LET starts == TokenStarts(source[cur.Location.Line], issue.Text[2])
                IN  IF starts # {}
                    THEN issue.Pos.Column \in starts
                    ELSE issue.Pos.Column = cur.Location.Column

\* the class tokens findClassColumn is asked for
SearchedTokens == TokenPool \cup {TokAZ}

\* C24: findClassColumn(line, t) is a column of line at which the class token
\* t begins when t is a class token of the line, and 0 when t does not occur
\* in the line
C24_FindClassColumn ==
    HandledClassString =>
        \A t \in SearchedTokens :
            LET line == cur.Location.Text
                starts == TokenStarts(line, t)
            IN  /\ starts # {} => findClassColumn(line, t) \in starts
                /\ ~Contains(line, t) => findClassColumn(line, t) = 0

Scanned == pc \in {"analyze", "analyzed", "limited", "exited"}

SameReference(a, b) ==
    /\ a.IsConstant = b.IsConstant
    /\ a.ConstName = b.ConstName
    /\ a.FullClassValue = b.FullClassValue

\* C28: on a line with templ.Classes( or templ.KV( that is no comment, every
\* class string and every ui.X identifier that the generic patterns match is
\* among the references returned for the line
C28_TemplLinesLoseNoReference ==
    Scanned =>
        \A n \in 1..Len(source) :
            LET line == source[n]
                generic == StandardMatches(line, n)
            IN  (/\ ~commentPattern(line)
                 /\ Contains(line, TemplClassesCall) \/ Contains(line, TemplKVCall))
                => \A k \in 1..Len(generic) :
                        \E j \in 1..Len(references) :
                            /\ references[j].Location.Line = n
                            /\ SameReference(references[j], generic[k])


-----------------------------------------------------------------------------
(* Properties of pseudo-classes in compound selectors *)

\* the base Properties that the rules before the last one give the class n
PropertiesBefore(t, n) ==
    LET parsed == ParsedClasses(t.before, files[1].path, files[1].inferredLayer)
    IN  IF n \in DOMAIN parsed THEN parsed[n].Properties ELSE EmptyMap

\* C25: a rule whose compound or descendant selector has a pseudo-class after
\* a later class leaves the base Properties of every class of the selector as
\* the rules before it made them
C25_PseudoRuleKeepsBaseOfEveryClass ==
    \A t \in PseudoCompoundSheets :
        ParsedSheet(t.before \o t.rule) =>
            \A n \in t.classes :
                \A x \in RecordsNamed(n) :
                    heap[x].Properties = PropertiesBefore(t, n)


-----------------------------------------------------------------------------
(* Properties of Generate after the merge *)

\* mergeConflicts has returned the merged slice
Merged == pc \in {"filter", "write"}

MergedRecords == {heap[allClasses[p]] : p \in 1..Len(allClasses)}

\* the merged records whose names compute the identifier G
Computing(G) == {r \in MergedRecords : toGoName(r.Name) = G}

\* C26: the k distinct merged class names that compute the identifier G have
\* exactly the identifiers G, G2, ..., Gk
C26_SuffixesOverMergedNames ==
    Merged =>
        \A r \in MergedRecords :
            LET G == toGoName(r.Name)
                k == Cardinality({q.Name : q \in Computing(G)})
            IN  {q.GoName : q \in Computing(G)} = {G} \cup {G \o Decimal(i) : i \in 2..k}

\* C27: after the merge the ParentClass of every merged record is one of the
\* merged records
C27_ParentIsMergedRecord ==
    Merged =>
        \A p \in 1..Len(allClasses) :
            Record(p).ParentClass # 0 =>
                \E q \in 1..Len(allClasses) : allClasses[q] = Record(p).ParentClass

=============================================================================
